---- MODULE Spec2Model ----
(***************************************************************************)
(* State-machine model of the polymarket radar: the Binance candle stream  *)
(* client (src/src/ws_binance.py), position reconciliation, order          *)
(* execution, TP/SL monitoring and position close                          *)
(* (src/src/trade_executor.py, src/polymarket_api.py).                     *)
(*                                                                         *)
(* Each component has its own specification over the shared variables:     *)
(*   SpecWS    - BinanceWS: run loop, stream callbacks, get_candles        *)
(*   SpecSync  - sync_positions on the local position list                 *)
(*   SpecBuy   - handle_buy / execute_hotkey / execute_buy_market          *)
(*   SpecMon   - monitor_tp_sl                                             *)
(*   SpecClose - execute_close_market                                      *)
(*   SpecSignal - compute_signal, get_market_phase, the opportunity test   *)
(*   SpecLife  - BinanceWS thread life cycle, status, dropped messages,    *)
(*               the worker pool and main's shutdown                       *)
(*   SpecCache - PriceCache                                                *)
(*   SpecTrade - one signal trade of main: buy, TP/SL monitoring, close    *)
(*   SpecConn  - BinanceWS reconnection: backoff, endpoints, callbacks     *)
(*   SpecBuf   - BinanceWS candle buffer under an ordered stream           *)
(*   SpecReg   - detect_regime                                             *)
(*   SpecThr   - BinanceWS start, stop, status and the run-loop threads    *)
(*   SpecLate  - the buy path with a submit task that outlives its wait    *)
(*   SpecSyncFail - sync_positions with failing balance queries            *)
(* A specification leaves the variables of the other components unchanged. *)
(*                                                                         *)
(* Units: a candle is its open time (timestamp) counted in candle          *)
(* intervals; prices are in cents; clock ages are in seconds.              *)
(***************************************************************************)
EXTENDS Integers, Sequences, FiniteSets, TLC

VARIABLES
    \* ---- BinanceWS (src/src/ws_binance.py) ----
    candles,          \* self._candles: closed candles, oldest first
    current,          \* self._current: <<>> (None) or <<candle>> (forming)
    connected,        \* self._connected
    running,          \* self._running
    last_update_age,  \* time.time() - self._last_update, saturated at FRESH_SEC
    msg_count,        \* self._msg_count
    thread_pc,        \* position of the _run_loop thread
    minute,           \* open time of the candle the exchange is forming
    gc_pc,            \* position of the caller inside get_candles
    gc_call,          \* locals of the get_candles call in progress
    gc_ret,           \* what the last get_candles call returned
    \* ---- sync_positions (src/src/trade_executor.py) ----
    positions,        \* the local position list, oldest first
    chain,            \* on-exchange share balance of each direction
    clock,            \* datetime.now() as the HH:MM:SS string, a number here
    changes,          \* what the last sync_positions call returned
    sync_in,          \* the inputs of the last sync_positions call
    syncs,            \* sync_positions calls made
    \* ---- the exchange (py_clob_client calls) ----
    held,             \* on-exchange shares of each direction, in 1/100 share
    order,            \* the order being monitored, as the exchange has it
    resting,          \* value of the other orders resting on the book
    \* ---- monitor_order (src/polymarket_api.py) ----
    mo_pc,            \* position inside monitor_order
    mo_elapsed,       \* time.time() - start, in seconds
    mo_cfg,           \* its interval and timeout_sec arguments
    mo_ret,           \* its return value (status, details)
    \* ---- handle_buy / execute_buy_market (src/src/trade_executor.py) ----
    buy_pc,           \* position inside execute_buy_market
    order_req,        \* the OrderArgs of the buy: direction, price, size
    buy_ret,          \* what handle_buy returned: info and message
    balance,          \* the caller's balance, in 1/10000 USD
    trade_log,        \* number of log_trade calls
    buys,             \* handle_buy calls made
    position_limit,   \* POSITION_LIMIT, in 1/10000 USD
    posted,           \* the latest buy order posted, with the exposure then projected
    \* ---- monitor_tp_sl (src/src/trade_executor.py) ----
    mon_pc,           \* position inside monitor_tp_sl
    mon_args,         \* its arguments tp, sl, tp_above, sl_above, timeout_sec
    mon_price,        \* its local price
    mon_elapsed,      \* time.time() - start, in tenths of a second
    key_i,            \* key checks done in the current iteration
    fut,              \* fut_price: "none", "pending" or "done", and its value
    reads,            \* the prices assigned to price (line 266), in order
    fetches,          \* get_price calls issued, pooled or direct
    mon_ret,          \* its return value (outcome, price)
    mons,             \* monitor_tp_sl calls made
    \* ---- execute_close_market (src/src/trade_executor.py) ----
    close_pc,         \* position inside execute_close_market
    attempt,          \* iterations of its for loop begun
    side_i,           \* index of the side being closed: 1 = UP, 2 = DOWN
    shares_read,      \* shares_up and shares_down of the current attempt
    sells,            \* the number of sell submissions made for each side
    last_sell,        \* the latest sell submission
    results,          \* len(results)
    total_value,      \* total_value, in 1/10000 USD
    close_ret,        \* what the call returned
    closes,           \* execute_close_market calls made
    \* ---- signal engine (src/src/signal_engine.py, src/radar_poly.py) ----
    sig_in,           \* arguments of the last compute_signal call
    sig_ret,          \* what it returned
    phase_in,         \* arguments of the last get_market_phase call
    phase_ret,        \* what it returned: (phase_name, min_strength_threshold)
    main,             \* the last cycle of the main loop up to the opportunity test
    \* ---- BinanceWS.status, main's shutdown (ws_binance.py, radar_poly.py) ----
    status_ret,       \* what the last status query returned, and what it read
    last_msg,         \* the last message _on_message dropped, and how
    tasks,            \* tasks submitted to _executor and not finished
    exit_pc,          \* "run" until main's finally block is over, then "done"
    \* ---- PriceCache (src/radar_poly.py) ----
    cache,            \* self._cache: key -> (price, age of ts), or no entry
    cache_ret,        \* the last PriceCache.get call: its key, answer and fetch
    \* ---- BinanceWS reconnection (src/src/ws_binance.py) ----
    loop_pc,          \* position of _run_loop inside its while loop
    reconnect_count,  \* self._reconnect_count
    endpoint_idx,     \* self._endpoint_idx
    last_error,       \* self._last_error ("" or the kind of the error)
    delay,            \* the local delay of line 168, in seconds
    url,              \* index of the endpoint of the current attempt
    conn,             \* history of the attempts: see NoConn
    \* ---- the kline stream of one connection (src/src/ws_binance.py) ----
    wire,             \* messages sent by the exchange, not yet handled
    \* ---- detect_regime (src/src/binance_api.py) ----
    reg_in,           \* the argument of the last detect_regime call
    reg_ret,          \* what it returned: (regime, adx)
    \* ---- execute_buy_market's submit task (src/src/trade_executor.py) ----
    late,             \* the order of a _submit_order task that outlived its wait
    \* ---- BinanceWS run-loop threads (src/src/ws_binance.py) ----
    threads,          \* position of every _run_loop thread created so far
    cur               \* self._thread: the thread created last (0: None)

wsVars == <<candles, current, connected, running, last_update_age, msg_count,
            thread_pc, minute, gc_pc, gc_call, gc_ret>>

syncVars == <<chain, changes, sync_in, syncs>>
exchVars == <<held, order, resting>>
moVars == <<mo_pc, mo_elapsed, mo_cfg, mo_ret>>
buyVars == <<buy_pc, order_req, buy_ret, balance, trade_log, buys, position_limit, posted>>

monVars == <<mon_pc, mon_args, mon_price, mon_elapsed, key_i, fut, reads,
             fetches, mon_ret, mons>>
closeVars == <<close_pc, attempt, side_i, shares_read, sells, last_sell, results,
               total_value, close_ret, closes>>

sigVars == <<sig_in, sig_ret, phase_in, phase_ret, main>>
lifeVars == <<status_ret, last_msg, tasks, exit_pc>>
cacheVars == <<cache, cache_ret>>
connVars == <<loop_pc, reconnect_count, endpoint_idx, last_error, delay, url,
              conn>>
\* the variables of the components added last
bufVars == <<wire>>
regVars == <<reg_in, reg_ret>>
lateVars == <<late>>
thrVars == <<threads, cur>>
moreVars == <<connVars, bufVars, regVars, lateVars, thrVars>>

vars == <<wsVars, positions, clock, syncVars, exchVars, moVars, buyVars,
          monVars, closeVars, sigVars, lifeVars, cacheVars, moreVars>>

\* what the actions of one component leave unchanged
notLife == <<positions, clock, syncVars, exchVars, moVars, buyVars, monVars,
             closeVars, sigVars, cacheVars, moreVars>>
notWS == <<notLife, lifeVars>>
notSync == <<wsVars, exchVars, moVars, buyVars, monVars, closeVars, sigVars,
             lifeVars,
        cacheVars, moreVars>>
notBuy == <<wsVars, syncVars, monVars, closeVars, sigVars, lifeVars,
        cacheVars, moreVars>>
notMo == <<wsVars, positions, clock, syncVars, buyVars, monVars, closeVars,
           sigVars, lifeVars,
        cacheVars, moreVars>>
notMon == <<wsVars, positions, clock, syncVars, exchVars, moVars, buyVars,
            closeVars, sigVars, lifeVars,
        cacheVars, moreVars>>
notClose == <<wsVars, positions, clock, syncVars, buyVars, monVars, sigVars,
              lifeVars,
        cacheVars, moreVars>>
notCache == <<wsVars, positions, clock, syncVars, exchVars, moVars, buyVars,
              monVars, closeVars, sigVars, lifeVars, moreVars>>
oldVars == <<positions, clock, syncVars, exchVars, moVars, buyVars, monVars,
             closeVars, sigVars, lifeVars, cacheVars>>
notConn == <<oldVars, bufVars, regVars, lateVars, thrVars>>
notBuf == <<oldVars, connVars, regVars, lateVars, thrVars>>
notReg == <<wsVars, oldVars, connVars, bufVars, lateVars, thrVars>>
notLate == <<wsVars, syncVars, monVars, closeVars, sigVars, lifeVars,
             cacheVars, connVars, bufVars, regVars, thrVars>>
\* what the run-loop threads leave unchanged, self._running and
\* self._connected apart
notThr == <<candles, current, last_update_age, msg_count, thread_pc, minute,
            gc_pc, gc_call, gc_ret, oldVars, connVars, bufVars, regVars,
            lateVars>>
notSig == <<wsVars, positions, clock, syncVars, exchVars, moVars, buyVars,
            monVars, closeVars, lifeVars,
        cacheVars, moreVars>>

\* ------------------------------------------------------------------------
\* Helpers
\* ------------------------------------------------------------------------
Min(a, b) == IF a <= b THEN a ELSE b
Max(a, b) == IF a >= b THEN a ELSE b

\* Python s[-n:] for n >= 1: the last n elements (all of s when n >= len).
LastN(s, n) == SubSeq(s, Max(1, Len(s) - n + 1), Len(s))

\* Python s[:-1]: all but the last element.
ButLast(s) == SubSeq(s, 1, Len(s) - 1)

\* ------------------------------------------------------------------------
\* BinanceWS
\* ------------------------------------------------------------------------
MAX_CANDLES == 30
\* get_candles line 123: "len(all_candles) >= 5" and "(now - last_update) < 10"
MIN_WS_CANDLES == 5
FRESH_SEC == 10

\* Bounds of the model
MaxMinute == 1      \* candle roll-overs of the exchange
MaxMsgs == 2        \* stream messages handled (caps self._msg_count)
TickSec == 5        \* seconds per clock step
GcLimits == {1, 6}  \* the `limit` arguments get_candles is called with

\* binance_api.get_klines(limit) answered while the exchange forms candle m:
\* the last `limit` candles, oldest first, the forming one last.
get_klines(m, limit) == [i \in 1..limit |-> m - limit + i]

\* gc_call: the call's argument and what it read on entry (lines 116-123):
\* all = all_candles, conn = self._connected, enough = len(all_candles) >= 5,
\* fresh = (time.time() - self._last_update) < 10.
NoCall == [limit |-> 0, all |-> <<>>, conn |-> FALSE, enough |-> FALSE,
           fresh |-> FALSE]
\* gc_ret: the returned (candles, source), the argument and entry reads of the
\* call that returned it, and how its fallback fetch ended (fetch, fetched).
NoRet == [candles |-> <<>>, source |-> "none", limit |-> 0, conn |-> FALSE,
          enough |-> FALSE, fresh |-> FALSE, fetch |-> "none", fetched |-> <<>>]

InitWS ==
    /\ candles = <<>>
    /\ current = <<>>
    /\ connected = FALSE
    /\ running = FALSE
    /\ last_update_age = FRESH_SEC      \* _last_update = 0, the epoch
    /\ msg_count = 0
    /\ thread_pc = "none"
    /\ minute = 0
    /\ gc_pc = "idle"
    /\ gc_call = NoCall
    /\ gc_ret = NoRet

\* start(): lines 86-97, called by main (radar_poly.py lines 1034, 1142)
Start ==
    /\ exit_pc = "run"
    /\ ~running
    /\ thread_pc = "none"
    /\ running' = TRUE
    /\ thread_pc' = "seed"
    /\ UNCHANGED <<candles, current, connected, last_update_age, msg_count,
                   minute, gc_pc, gc_call, gc_ret>>
    /\ UNCHANGED notWS

\* _run_loop lines 146-152: the initial seed succeeded
RunSeedOk ==
    /\ thread_pc = "seed"
    /\ LET got == get_klines(minute, MAX_CANDLES) IN
        /\ candles' = ButLast(got)
        /\ current' = <<got[Len(got)]>>
        /\ last_update_age' = 0
    /\ thread_pc' = "connect"
    /\ UNCHANGED <<connected, running, msg_count, minute, gc_pc, gc_call, gc_ret>>
    /\ UNCHANGED notWS

\* _run_loop lines 153-154: the initial seed raised
RunSeedFail ==
    /\ thread_pc = "seed"
    /\ thread_pc' = "connect"
    /\ UNCHANGED <<candles, current, connected, running, last_update_age,
                   msg_count, minute, gc_pc, gc_call, gc_ret>>
    /\ UNCHANGED notWS

\* _on_open: lines 190-194 (run_forever opened the socket)
OnOpen ==
    /\ thread_pc = "connect"
    /\ running
    /\ connected' = TRUE
    /\ thread_pc' = "open"
    /\ UNCHANGED <<candles, current, running, last_update_age, msg_count,
                   minute, gc_pc, gc_call, gc_ret>>
    /\ UNCHANGED notWS

\* _connect raised or run_forever ended without opening: lines 158-172
ConnectFail ==
    /\ thread_pc = "connect"
    /\ running
    /\ connected' = FALSE
    /\ thread_pc' = "backoff"
    /\ UNCHANGED <<candles, current, running, last_update_age, msg_count,
                   minute, gc_pc, gc_call, gc_ret>>
    /\ UNCHANGED notWS

\* _on_close / _on_error (lines 196-203), then run_forever returns and the
\* run loop marks the stream disconnected (line 172)
OnClose ==
    /\ thread_pc = "open"
    /\ connected' = FALSE
    /\ thread_pc' = "backoff"
    /\ UNCHANGED <<candles, current, running, last_update_age, msg_count,
                   minute, gc_pc, gc_call, gc_ret>>
    /\ UNCHANGED notWS

\* _run_loop lines 174-177: the backoff sleep is over
BackoffDone ==
    /\ thread_pc = "backoff"
    /\ thread_pc' = "connect"
    /\ UNCHANGED <<candles, current, connected, running, last_update_age,
                   msg_count, minute, gc_pc, gc_call, gc_ret>>
    /\ UNCHANGED notWS

\* _on_message lines 205-237 for a well-formed kline of candle t, closed = x
HandleKline(t, x) ==
    /\ thread_pc = "open"
    /\ msg_count < MaxMsgs
    /\ IF x
         THEN /\ candles' = LastN(Append(candles, t), MAX_CANDLES)
              /\ current' = <<>>
         ELSE /\ current' = <<t>>
              /\ UNCHANGED candles
    /\ last_update_age' = 0
    /\ msg_count' = msg_count + 1

OnMessage(t, x) ==
    /\ HandleKline(t, x)
    /\ UNCHANGED <<connected, running, thread_pc, minute, gc_pc, gc_call, gc_ret>>
    /\ UNCHANGED notWS

\* the exchange closes the forming candle and opens the next one
MinuteRoll ==
    /\ minute < MaxMinute
    /\ minute' = minute + 1
    /\ UNCHANGED <<candles, current, connected, running, last_update_age,
                   msg_count, thread_pc, gc_pc, gc_call, gc_ret>>
    /\ UNCHANGED notWS

\* TickSec seconds pass
Tick ==
    /\ last_update_age < FRESH_SEC
    /\ last_update_age' = Min(last_update_age + TickSec, FRESH_SEC)
    /\ UNCHANGED <<candles, current, connected, running, msg_count, thread_pc,
                   minute, gc_pc, gc_call, gc_ret>>
    /\ UNCHANGED notWS

\* get_candles lines 116-124: snapshot under the lock, then either return the
\* buffered data or go on to the HTTP fallback
GetCandlesEnter(limit) ==
    /\ gc_pc = "idle"
    /\ LET all == candles \o current
           enough == Len(all) >= MIN_WS_CANDLES
           fresh == last_update_age < FRESH_SEC IN
        IF connected /\ enough /\ fresh
          THEN /\ gc_ret' = [candles |-> LastN(all, limit), source |-> "ws",
                             limit |-> limit, conn |-> connected,
                             enough |-> enough, fresh |-> fresh,
                             fetch |-> "none", fetched |-> <<>>]
               /\ UNCHANGED <<gc_pc, gc_call>>
          ELSE /\ gc_pc' = "fetch"
               /\ gc_call' = [limit |-> limit, all |-> all, conn |-> connected,
                              enough |-> enough, fresh |-> fresh]
               /\ UNCHANGED gc_ret
    /\ UNCHANGED <<candles, current, connected, running, last_update_age,
                   msg_count, thread_pc, minute>>
    /\ UNCHANGED notWS

\* get_candles lines 127-135: get_klines answered; reseed and return it
GetCandlesFetchOk ==
    /\ gc_pc = "fetch"
    /\ LET got == get_klines(minute, gc_call.limit) IN
        /\ candles' = ButLast(got)
        /\ current' = IF got # <<>> THEN <<got[Len(got)]>> ELSE current
        /\ last_update_age' = 0
        /\ gc_ret' = [candles |-> got, source |-> "http",
                      limit |-> gc_call.limit, conn |-> gc_call.conn,
                      enough |-> gc_call.enough, fresh |-> gc_call.fresh,
                      fetch |-> "ok", fetched |-> got]
    /\ gc_pc' = "idle"
    /\ gc_call' = NoCall
    /\ UNCHANGED <<connected, running, msg_count, thread_pc, minute>>
    /\ UNCHANGED notWS

\* get_candles lines 136-141: get_klines raised; return whatever was buffered
GetCandlesFetchFail ==
    /\ gc_pc = "fetch"
    /\ gc_ret' = [candles |-> IF gc_call.all # <<>>
                                THEN LastN(gc_call.all, gc_call.limit) ELSE <<>>,
                  source |-> IF gc_call.all # <<>> THEN "ws" ELSE "http",
                  limit |-> gc_call.limit, conn |-> gc_call.conn,
                  enough |-> gc_call.enough, fresh |-> gc_call.fresh,
                  fetch |-> "fail", fetched |-> <<>>]
    /\ gc_pc' = "idle"
    /\ gc_call' = NoCall
    /\ UNCHANGED <<candles, current, connected, running, last_update_age,
                   msg_count, thread_pc, minute>>
    /\ UNCHANGED notWS

\* the kline messages the stream may deliver while the exchange forms candle m:
\* updates of the forming candle, and the closing message of a candle
Klines(m) == {<<m, FALSE>>, <<m - 1, TRUE>>, <<m, TRUE>>}

NextWS ==
    \/ Start
    \/ RunSeedOk
    \/ RunSeedFail
    \/ OnOpen
    \/ ConnectFail
    \/ OnClose
    \/ BackoffDone
    \/ \E k \in Klines(minute) : OnMessage(k[1], k[2])
    \/ MinuteRoll
    \/ Tick
    \/ \E limit \in GcLimits : GetCandlesEnter(limit)
    \/ GetCandlesFetchOk
    \/ GetCandlesFetchFail

\* ------------------------------------------------------------------------
\* BinanceWS: the candle buffer under an ordered stream
\* ------------------------------------------------------------------------
\* One connection delivers its messages in the order the exchange sent them:
\* updates of the forming candle, and at each roll-over the closing message of
\* the candle that ended. A message may be handled any time after it was sent.
MaxWire == 2        \* messages in flight at once
BufLimits == {6, 32}    \* the `limit` arguments of get_candles

InitBuf == wire = <<>>

\* the exchange sends an update of the forming candle (x = false)
StreamUpdate ==
    /\ thread_pc = "open"
    /\ Len(wire) < MaxWire
    /\ wire' = Append(wire, <<minute, FALSE>>)
    /\ UNCHANGED <<wsVars, notBuf>>

\* the exchange closes the forming candle, sends its closing message (x = true)
\* and opens the next candle
StreamRoll ==
    /\ minute < MaxMinute
    /\ Len(wire) < MaxWire
    /\ minute' = minute + 1
    /\ wire' = IF thread_pc = "open" THEN Append(wire, <<minute, TRUE>>) ELSE wire
    /\ UNCHANGED <<candles, current, connected, running, last_update_age,
                   msg_count, thread_pc, gc_pc, gc_call, gc_ret>>
    /\ UNCHANGED notBuf

\* _on_message (lines 205-237) handles the oldest message in flight
StreamDeliver ==
    /\ wire # <<>>
    /\ HandleKline(Head(wire)[1], Head(wire)[2])
    /\ wire' = Tail(wire)
    /\ UNCHANGED <<connected, running, thread_pc, minute, gc_pc, gc_call, gc_ret>>
    /\ UNCHANGED notBuf

NextBuf ==
    \/ Start
    \/ RunSeedOk
    \/ RunSeedFail
    \/ OnOpen
    \/ StreamUpdate
    \/ StreamRoll
    \/ StreamDeliver
    \/ Tick
    \/ \E limit \in BufLimits : GetCandlesEnter(limit)
    \/ GetCandlesFetchOk
    \/ GetCandlesFetchFail

\* C22: after any sequence of stream messages, seeds and fallback fetches (for
\* any limit passed to get_candles) the closed buffer holds at most MAX_CANDLES
\* candles and there is at most one forming candle.
C22_BufferBounded == Len(candles) <= MAX_CANDLES /\ Len(current) <= 1

\* Sorted(s): the open times of s are strictly increasing
Sorted(s) == \A i \in 1..(Len(s) - 1) : s[i] < s[i + 1]

\* C23: in every reachable state the open times of the closed buffer, followed
\* by the forming candle when present, are strictly increasing, for every
\* interleaving of handled messages with fallback reseeds.
C23_OpenTimesIncrease == Sorted(candles \o current)

\* ------------------------------------------------------------------------
\* BinanceWS life cycle, the worker pool, shutdown
\* ------------------------------------------------------------------------
MaxTasks == 2       \* tasks in the worker pool at once

\* thread_pc of a thread that is_alive()
Alive == {"seed", "connect", "open", "backoff"}

\* the messages that carry no usable kline
BadKinds == {"bad_json", "not_object", "no_k", "missing_field", "non_numeric"}

NoStatus == [ret |-> "none", run |-> FALSE, conn |-> FALSE, dead |-> FALSE,
             alive |-> FALSE]
NoMsg == [kind |-> "none", escaped |-> FALSE]

InitLife ==
    /\ status_ret = NoStatus
    /\ last_msg = NoMsg
    /\ tasks = 0
    /\ exit_pc = "run"

\* _on_message lines 207-221: what a message of that kind raises. bad_json:
\* json.loads (207); not_object (a JSON array, number, string or null):
\* data.get of line 208 does not exist; no_k: the return of line 210;
\* missing_field: k["t"] .. k["v"]; non_numeric: float(...).
Raised(kind) ==
    CASE kind = "bad_json" -> "JSONDecodeError"
      [] kind = "not_object" -> "AttributeError"
      [] kind = "no_k" -> "none"
      [] kind = "missing_field" -> "KeyError"
      [] kind = "non_numeric" -> "ValueError"

\* _on_message line 239: except (json.JSONDecodeError, KeyError, ValueError,
\* TypeError)
Caught == {"JSONDecodeError", "KeyError", "ValueError", "TypeError"}

\* _on_message lines 205-240 for a message of a kind in BadKinds: nothing is
\* assigned (the assignments of lines 225-237 come after every raise); the
\* exception leaves the handler when line 239 does not name it
OnBadMessage(kind) ==
    /\ thread_pc = "open"
    /\ last_msg' = [kind |-> kind,
                    escaped |-> Raised(kind) \notin (Caught \cup {"none"})]
    /\ UNCHANGED <<wsVars, status_ret, tasks, exit_pc>>
    /\ UNCHANGED notLife

\* the _run_loop thread ends on an error nothing catches ("Thread died
\* unexpectedly", status line 74): the except clauses of lines 153 and 159
\* catch Exception only, and no flag is reset on the way out
ThreadDies ==
    /\ thread_pc \in Alive
    /\ thread_pc' = "dead"
    /\ UNCHANGED <<candles, current, connected, running, last_update_age,
                   msg_count, minute, gc_pc, gc_call, gc_ret>>
    /\ UNCHANGED notWS

\* _run_loop lines 156, 163-164, 174-176: the thread sees _running False and
\* returns
RunExit ==
    /\ thread_pc \in {"connect", "backoff"}
    /\ ~running
    /\ thread_pc' = "dead"
    /\ UNCHANGED <<candles, current, connected, running, last_update_age,
                   msg_count, minute, gc_pc, gc_call, gc_ret>>
    /\ UNCHANGED notWS

\* status: lines 67-84, queried by main for every panel (radar_poly.py 1202).
\* "CONNECTING" stands for the three answers of lines 79-84 (ERR, RECONN,
\* CONNECTING), which differ in the text shown only.
Status ==
    /\ exit_pc = "run"
    /\ LET dead == thread_pc = "dead"
           ret == IF ~running THEN "OFF"
                  ELSE IF connected THEN "WS"
                  ELSE IF dead THEN "RESTART"
                  ELSE "CONNECTING" IN
        /\ thread_pc' = IF ret = "RESTART" THEN "seed" ELSE thread_pc
        /\ status_ret' = [ret |-> ret, run |-> running, conn |-> connected,
                          dead |-> dead,
                          alive |-> (IF ret = "RESTART" THEN "seed"
                                     ELSE thread_pc) \in Alive]
    /\ UNCHANGED <<candles, current, connected, running, last_update_age,
                   msg_count, minute, gc_pc, gc_call, gc_ret>>
    /\ UNCHANGED <<last_msg, tasks, exit_pc>>
    /\ UNCHANGED notLife

\* _executor.submit(get_price, ...): radar_poly.py lines 908, 1171, 1172
MainSubmit ==
    /\ exit_pc = "run"
    /\ tasks < MaxTasks
    /\ tasks' = tasks + 1
    /\ UNCHANGED <<wsVars, status_ret, last_msg, exit_pc>>
    /\ UNCHANGED notLife

\* a worker of the pool finishes its get_price call
TaskDone ==
    /\ tasks > 0
    /\ tasks' = tasks - 1
    /\ UNCHANGED <<wsVars, status_ret, last_msg, exit_pc>>
    /\ UNCHANGED notLife

\* stop(): lines 99-107. The flags are cleared and the socket closed; the
\* thread is not joined.
Stop ==
    /\ running' = FALSE
    /\ connected' = FALSE

\* main's finally block, radar_poly.py lines 1389-1399: binance_ws.stop(),
\* then _executor.shutdown(wait=False), which returns at once and leaves the
\* submitted tasks to the workers
MainFinally ==
    /\ exit_pc = "run"
    /\ Stop
    /\ exit_pc' = "done"
    /\ UNCHANGED <<candles, current, last_update_age, msg_count, thread_pc,
                   minute, gc_pc, gc_call, gc_ret>>
    /\ UNCHANGED <<status_ret, last_msg, tasks>>
    /\ UNCHANGED notLife

NextLife ==
    \/ Start
    \/ RunSeedOk
    \/ RunSeedFail
    \/ OnOpen
    \/ ConnectFail
    \/ OnClose
    \/ BackoffDone
    \/ \E k \in Klines(minute) : OnMessage(k[1], k[2])
    \/ \E kind \in BadKinds : OnBadMessage(kind)
    \/ ThreadDies
    \/ RunExit
    \/ Status
    \/ MainSubmit
    \/ TaskDone
    \/ MainFinally

\* ------------------------------------------------------------------------
\* Claims: life cycle and shutdown
\* ------------------------------------------------------------------------
\* C15: when the ingestion thread is not alive while the component is running
\* (start was called, stop was not), the status query restarts it, whatever
\* the connected flag is at that moment, and a live thread exists after the
\* query.
C15_StatusRestartsDeadThread ==
    (status_ret.run /\ status_ret.dead)
        => (status_ret.ret = "RESTART" /\ status_ret.alive)

\* C16: when main's shutdown sequence is over, the ingestion thread has
\* terminated and no task submitted to the worker pool is pending or running.
C16_ShutdownLeavesNothingRunning ==
    exit_pc = "done" => (thread_pc \notin Alive /\ tasks = 0)

\* C18: a malformed stream message (not valid JSON, not an object, without a
\* kline payload, or with a missing or non-numeric field) is dropped and no
\* error escapes the message handler.
C18_MalformedDropped ==
    last_msg.kind \in BadKinds => ~last_msg.escaped

\* ------------------------------------------------------------------------
\* PriceCache
\* ------------------------------------------------------------------------
\* Time is counted in tenths of a second; an age is time.time() - ts,
\* saturated at TTL.
TTL == 5                              \* PriceCache(ttl_sec=0.5)

\* Bounds of the model
CacheStep == 3                        \* tenths of a second per clock step
Tokens == {"up", "down"}              \* token_id
PriceSides == {"BUY", "SELL"}         \* side
Quotes == {50, 52}                    \* the prices the endpoint answers
FetchTimes == {0, CacheStep}          \* how long the HTTP call takes

Keys == Tokens \X PriceSides

NoEntry == [has |-> FALSE, price |-> 0, age |-> 0]
NoCacheRet == [key |-> <<"none", "none">>, price |-> 0, hit |-> FALSE,
               fetch_ok |-> FALSE, age |-> 0]

InitCache ==
    /\ cache = [k \in Keys |-> NoEntry]
    /\ cache_ret = NoCacheRet

\* PriceCache.get lines 133-135: is the entry served?
Fresh(entry) == entry.has /\ entry.age < TTL

\* PriceCache.get lines 131-147. resp is the price of the answer, 0 when the
\* request or its parsing raised (price = 0.0, line 145); took is the time the
\* request took: ts is the time read at line 132, before the request.
CacheGet(key, resp, took) ==
    /\ IF Fresh(cache[key])
         THEN /\ cache_ret' = [key |-> key, price |-> cache[key].price,
                               hit |-> TRUE, fetch_ok |-> FALSE,
                               age |-> cache[key].age]
              /\ UNCHANGED cache
         ELSE /\ cache' = [k \in Keys |->
                             IF k = key
                               THEN [has |-> TRUE, price |-> resp,
                                     age |-> Min(took, TTL)]
                             ELSE IF cache[k].has
                               THEN [cache[k] EXCEPT
                                        !.age = Min(@ + took, TTL)]
                             ELSE cache[k]]
              /\ cache_ret' = [key |-> key, price |-> resp, hit |-> FALSE,
                               fetch_ok |-> resp > 0, age |-> 0]
    /\ UNCHANGED notCache

\* PriceCache.invalidate: line 150
Invalidate ==
    /\ cache' = [k \in Keys |-> NoEntry]
    /\ UNCHANGED cache_ret
    /\ UNCHANGED notCache

\* CacheStep tenths of a second pass
CacheTick ==
    /\ \E k \in Keys : cache[k].has /\ cache[k].age < TTL
    /\ cache' = [k \in Keys |->
                    IF cache[k].has
                      THEN [cache[k] EXCEPT !.age = Min(@ + CacheStep, TTL)]
                      ELSE cache[k]]
    /\ UNCHANGED cache_ret
    /\ UNCHANGED notCache

NextCache ==
    \/ \E key \in Keys, resp \in Quotes \cup {0}, took \in FetchTimes :
          CacheGet(key, resp, took)
    \/ Invalidate
    \/ CacheTick

\* ------------------------------------------------------------------------
\* Claims: PriceCache
\* ------------------------------------------------------------------------
\* C17: the cache stores an entry for a key only after a successful fetch and
\* serves a stored entry only while it is younger than the TTL: a failed fetch
\* is never cached, so a lookup that follows a failed fetch performs a new
\* fetch instead of answering the failure value from the cache.
C17_OnlySuccessCached ==
    /\ \A k \in Keys : cache[k].has => cache[k].price > 0
    /\ cache_ret.hit => (cache_ret.age < TTL /\ cache_ret.price > 0)

\* ------------------------------------------------------------------------
\* sync_positions
\* ------------------------------------------------------------------------
\* Shares are counted in units of 1/SHARE share, so that differences below one
\* share exist; the thresholds "diff >= 1.0" and "diff <= -1.0" (lines 65, 79)
\* are SHARE units.
SHARE == 2

\* Bounds of the model
MaxPos == 3        \* positions in the local list
MaxBal == 4        \* on-exchange balance of a direction, in units
MaxClock == 2      \* distinct HH:MM:SS strings
MaxSyncs == 2      \* sync_positions calls in a row
Dirs == {"up", "down"}
FillShares == {SHARE, SHARE + 1}   \* sizes of the fills handle_buy records
FillPrices == {50}                 \* their prices
SellQuotes == {0, 48}              \* get_price(token, "SELL"); 0 = failed
BuyQuotes == {0, 52}                \* get_price(token, "BUY")

\* A position is the dict handle_buy or sync_positions appends. `source` is
\* "local" for the dicts of handle_buy, which have no 'source' key.
Position(d, pr, sh, t, src) ==
    [direction |-> d, price |-> pr, shares |-> sh, time |-> t, source |-> src]

\* A change is the tuple (direction, shares, price, action) of lines 77, 88, 91.
Change(d, sh, pr, act) == <<d, sh, pr, act>>

RECURSIVE SumShares(_, _)
\* sum(p['shares'] for p in positions if p['direction'] == direction), line 61
SumShares(pos, d) ==
    IF pos = <<>> THEN 0
    ELSE (IF pos[1].direction = d THEN pos[1].shares ELSE 0)
         + SumShares(Tail(pos), d)

\* (mutant) the SELL quote is used even when it is not positive
PlatformPrice_NoFallback(sell, buy) == sell

\* lines 67-69: the SELL quote, or the BUY quote when the SELL quote is not
\* positive
PlatformPrice(sell, buy) == IF sell <= 0 THEN buy ELSE sell

\* dict equality, as list.remove compares: the fields, not the object
SameDict(p, q) ==
    /\ p.direction = q.direction
    /\ p.price = q.price
    /\ p.shares = q.shares
    /\ p.time = q.time
    /\ p.source = q.source

\* An object of the list: a dict (val) and its identity (id).
Objects(pos) == [i \in 1..Len(pos) |-> [id |-> i, val |-> pos[i]]]
Values(objs) == [i \in 1..Len(objs) |-> objs[i].val]

\* positions.remove(p), line 89: delete the first element equal to p
ListRemove(objs, p) ==
    LET hits == {i \in 1..Len(objs) : SameDict(objs[i].val, p.val)} IN
    IF hits = {} THEN objs
    ELSE LET k == CHOOSE i \in hits : \A j \in hits : i <= j IN
         SubSeq(objs, 1, k - 1) \o SubSeq(objs, k + 1, Len(objs))

\* p['shares'] -= to_remove, line 92: mutates the object p, wherever it is
Reduce(objs, p, n) ==
    [i \in 1..Len(objs) |->
        IF objs[i].id = p.id
          THEN [objs[i] EXCEPT !.val.shares = @ - n]
          ELSE objs[i]]

RECURSIVE RemoveLoop(_, _, _, _, _, _)
\* lines 83-93: "for p in reversed(list(positions))". snap is the copy the loop
\* walks, i the index of the next p (from the end), objs the list as it is
\* now, chg the changes so far.
RemoveLoop(snap, i, d, objs, to_remove, chg) ==
    IF i = 0 THEN [objs |-> objs, chg |-> chg]
    ELSE LET p == snap[i] IN
         IF p.val.direction # d \/ to_remove <= 0
           THEN RemoveLoop(snap, i - 1, d, objs, to_remove, chg)
         ELSE IF p.val.shares <= to_remove
           THEN RemoveLoop(snap, i - 1, d, ListRemove(objs, p),
                           to_remove - p.val.shares,
                           Append(chg, Change(d, p.val.shares, p.val.price,
                                              "removed")))
         ELSE RemoveLoop(snap, i - 1, d, Reduce(objs, p, to_remove), 0,
                         Append(chg, Change(d, to_remove, p.val.price,
                                            "removed")))

\* lines 55-93, one pass of the loop over the directions: actual is
\* get_token_position's answer, sell and buy the quotes of the token, now the
\* time string. acc = [pos, chg] is the list and the changes so far.
SyncDirection(acc, d, actual, sell, buy, now) ==
    LET diff == actual - SumShares(acc.pos, d) IN
    IF diff >= SHARE
      THEN LET price == PlatformPrice(sell, buy) IN
           [pos |-> Append(acc.pos, Position(d, price, diff, now, "platform")),
            chg |-> Append(acc.chg, Change(d, diff, price, "added"))]
    ELSE IF diff <= -SHARE
      THEN LET objs == Objects(acc.pos)
               r == RemoveLoop(objs, Len(objs), d, objs, -diff, acc.chg) IN
           [pos |-> Values(r.objs), chg |-> r.chg]
    ELSE acc

\* sync_positions, lines 35-95: 'up' first, then 'down'
sync_positions(pos, bal, sell, buy, now) ==
    LET up == SyncDirection([pos |-> pos, chg |-> <<>>], "up", bal["up"],
                            sell["up"], buy["up"], now) IN
    SyncDirection(up, "down", bal["down"], sell["down"], buy["down"], now)

\* polymarket_api.get_token_position lines 213-225 for each direction: the
\* balance, or 0.0 when the query raised (ok[d] false); nothing is re-raised
Answered(bal, ok) == [d \in Dirs |-> IF ok[d] THEN bal[d] ELSE 0]
AllOk == [d \in Dirs |-> TRUE]

\* sync_in: the list and the balances sync_positions was given (bal: what
\* get_token_position answered; ok: whether each query went through)
NoSync == [pos |-> <<>>, bal |-> [d \in Dirs |-> 0], sell |-> [d \in Dirs |-> 0],
           buy |-> [d \in Dirs |-> 0], now |-> 0, ok |-> AllOk]

InitSync ==
    /\ positions = <<>>
    /\ chain = [d \in Dirs |-> 0]
    /\ clock = 1
    /\ changes = <<>>
    /\ sync_in = NoSync
    /\ syncs = 0

\* handle_buy lines 324-328 on a fill: the position is appended. The model
\* builds the list first and reconciles it afterwards.
LocalFill(d, sh, pr) ==
    /\ syncs = 0
    /\ Len(positions) < MaxPos
    /\ positions' = Append(positions, Position(d, pr, sh, clock, "local"))
    /\ UNCHANGED <<chain, clock, changes, sync_in, syncs>>
    /\ UNCHANGED notSync

\* the on-exchange balance of a direction, as fills and trades on the
\* exchange's own interface leave it
PlatformTrade(d, bal) ==
    /\ syncs = 0
    /\ bal # chain[d]
    /\ chain' = [chain EXCEPT ![d] = bal]
    /\ UNCHANGED <<positions, clock, changes, sync_in, syncs>>
    /\ UNCHANGED notSync

\* the wall clock reaches the next second
ClockTick ==
    /\ clock < MaxClock
    /\ clock' = clock + 1
    /\ UNCHANGED <<positions, chain, changes, sync_in, syncs>>
    /\ UNCHANGED notSync

\* whether sync_positions asks for the quotes of direction d (line 65); the
\* quotes it does not ask for are written 0
Asked(pos, bal, d) == bal[d] - SumShares(pos, d) >= SHARE

\* one call of sync_positions; ok[d]: the balance query of direction d went
\* through
SyncCall(ok, sell, buy) ==
    /\ syncs < MaxSyncs
    /\ LET bal == Answered(chain, ok)
           r == sync_positions(positions, bal, sell, buy, clock) IN
        /\ \A d \in Dirs : Asked(positions, bal, d) \/ (sell[d] = 0 /\ buy[d] = 0)
        /\ positions' = r.pos
        /\ changes' = r.chg
        /\ sync_in' = [pos |-> positions, bal |-> bal, sell |-> sell,
                       buy |-> buy, now |-> clock, ok |-> ok]
    /\ syncs' = syncs + 1
    /\ UNCHANGED <<chain, clock>>
    /\ UNCHANGED notSync

\* one call of sync_positions, both balance queries answered
Sync(sell, buy) == SyncCall(AllOk, sell, buy)

\* one call of sync_positions during which a balance query fails
SyncQueryFails(ok, sell, buy) == ok # AllOk /\ SyncCall(ok, sell, buy)

NextSync ==
    \/ \E d \in Dirs, sh \in FillShares, pr \in FillPrices : LocalFill(d, sh, pr)
    \/ \E d \in Dirs, bal \in 0..MaxBal : PlatformTrade(d, bal)
    \/ ClockTick
    \/ \E sell \in [Dirs -> SellQuotes], buy \in [Dirs -> BuyQuotes] :
          Sync(sell, buy)

\* reconciliation with balance queries that may fail
NextSyncFail ==
    \/ \E d \in Dirs, sh \in FillShares, pr \in FillPrices : LocalFill(d, sh, pr)
    \/ \E d \in Dirs, bal \in 0..MaxBal : PlatformTrade(d, bal)
    \/ ClockTick
    \/ \E sell \in [Dirs -> SellQuotes], buy \in [Dirs -> BuyQuotes] :
          Sync(sell, buy)
    \/ \E ok \in [Dirs -> BOOLEAN], sell \in [Dirs -> SellQuotes],
          buy \in [Dirs -> BuyQuotes] : SyncQueryFails(ok, sell, buy)

\* ------------------------------------------------------------------------
\* Claims: sync_positions
\* ------------------------------------------------------------------------
\* C3: sync_positions is idempotent: a second call with the balances (and the
\* position list) as the first call left them reports no change and leaves the
\* position list as it was.
C3_SyncIdempotent ==
    syncs >= 2 => (changes = <<>> /\ positions = sync_in.pos)

\* the positions of direction d, in list order
RECURSIVE OfDirection(_, _)
OfDirection(pos, d) ==
    IF pos = <<>> THEN <<>>
    ELSE (IF pos[1].direction = d THEN <<pos[1]>> ELSE <<>>)
         \o OfDirection(Tail(pos), d)

\* the changes reported for direction d, in order
RECURSIVE ChangesOf(_, _)
ChangesOf(chg, d) ==
    IF chg = <<>> THEN <<>>
    ELSE (IF chg[1][1] = d THEN <<chg[1]>> ELSE <<>>) \o ChangesOf(Tail(chg), d)

\* n shares taken from a list last-in-first-out: the newest positions are
\* deleted whole while they fit, the next one is reduced by the remainder
RECURSIVE LifoTake(_, _)
LifoTake(pos, n) ==
    IF n <= 0 \/ pos = <<>> THEN pos
    ELSE LET last == pos[Len(pos)] IN
         IF last.shares <= n
           THEN LifoTake(ButLast(pos), n - last.shares)
           ELSE Append(ButLast(pos), [last EXCEPT !.shares = @ - n])

\* actual - local of direction d as the last call found it
DiffAtSync(d) == sync_in.bal[d] - SumShares(sync_in.pos, d)

\* C4: when the on-exchange balance of a direction is below the local sum by
\* d >= 1 share, sync_positions takes exactly d shares from that direction's
\* positions last-in-first-out (newest deleted whole while they fit, the next
\* reduced by the remainder and kept with shares > 0, older ones untouched),
\* and the local sum then equals the on-exchange balance.
C4_DeficitRemovedLifo ==
    syncs >= 1 =>
        \A d \in Dirs :
            DiffAtSync(d) <= -SHARE =>
                /\ OfDirection(positions, d)
                     = LifoTake(OfDirection(sync_in.pos, d), -DiffAtSync(d))
                /\ \A i \in 1..Len(positions) : positions[i].shares > 0
                /\ SumShares(positions, d) = sync_in.bal[d]

\* C5: when the on-exchange balance of a direction exceeds the local sum by
\* d >= 1 share, sync_positions appends exactly one position for it, with
\* shares = d, source 'platform' and the SELL quote as price (the BUY quote
\* when the SELL quote is not positive), and leaves that direction's existing
\* positions unchanged; when the difference is below one share either way it
\* changes nothing for that direction.
C5_SurplusAppendsPlatformPosition ==
    syncs >= 1 =>
        \A d \in Dirs :
            LET diff == DiffAtSync(d)
                quote == IF sync_in.sell[d] > 0 THEN sync_in.sell[d]
                         ELSE sync_in.buy[d] IN
            /\ diff >= SHARE =>
                /\ OfDirection(positions, d)
                     = Append(OfDirection(sync_in.pos, d),
                              Position(d, quote, diff, sync_in.now, "platform"))
                /\ ChangesOf(changes, d) = <<Change(d, diff, quote, "added")>>
            /\ (diff < SHARE /\ diff > -SHARE) =>
                /\ OfDirection(positions, d) = OfDirection(sync_in.pos, d)
                /\ ChangesOf(changes, d) = <<>>

\* C5 witness: a call found a surplus of at least one share in a direction
\* whose SELL quote was not positive, and priced the new position at the BUY
\* quote; the other direction differed by less than a share.
C5_Witness ==
    /\ syncs >= 1
    /\ \E d \in Dirs, e \in Dirs :
        /\ d # e
        /\ DiffAtSync(d) >= SHARE
        /\ sync_in.sell[d] <= 0
        /\ sync_in.buy[d] > 0
        /\ positions[Len(positions)].price = sync_in.buy[d]
        /\ DiffAtSync(e) = SHARE - 1
        /\ Len(sync_in.pos) > 0

\* C27: if the balance query of a direction fails during sync_positions, the
\* direction is skipped: its local positions are left unchanged and no change
\* is reported for it.
C27_FailedQuerySkipped ==
    \A d \in Dirs :
        (syncs > 0 /\ ~sync_in.ok[d]) =>
            /\ OfDirection(positions, d) = OfDirection(sync_in.pos, d)
            /\ \A i \in 1..Len(changes) : changes[i][1] # d

\* ------------------------------------------------------------------------
\* The exchange and monitor_order
\* ------------------------------------------------------------------------
\* Prices are in cents, sizes in 1/100 share, values (price x size) and the
\* balance in 1/10000 USD, order amounts in 1/1000 USD.
NoOrder == [direction |-> "none", side |-> "none", price |-> 0, size |-> 0,
            status |-> "NONE", lag |-> FALSE]

\* client.get_order: the order dict. While the exchange lags behind a match it
\* reports size_matched 0 (the race of monitor_order lines 347-348).
OrderDetails(o) ==
    [status |-> o.status,
     size_matched |-> IF o.status = "MATCHED" /\ ~o.lag THEN o.size ELSE 0,
     original_size |-> o.size, price |-> o.price]

NoDetails == [status |-> "NONE", size_matched |-> 0, original_size |-> 0,
              price |-> 0]
\* monitor_order's (final_status, order_details); has = details is not None.
\* zero: the poll that saw MATCHED reported size_matched 0; requeries: the
\* get_order calls of lines 349-353 made; requery_ok: the last one answered.
NoMoRet == [status |-> "NONE", has |-> FALSE, details |-> NoDetails,
            zero |-> FALSE, requeries |-> 0, requery_ok |-> FALSE]

NoCfg == [interval |-> 0, timeout |-> 0]

InitExchange ==
    /\ held = [d \in Dirs |-> 0]
    /\ order = NoOrder
    /\ resting = 0
    /\ mo_pc = "idle"
    /\ mo_elapsed = 0
    /\ mo_cfg = NoCfg
    /\ mo_ret = NoMoRet

\* the exchange matches the resting order; its size_matched may lag
ExchMatch(lag) ==
    /\ order.status = "LIVE"
    /\ order' = [order EXCEPT !.status = "MATCHED", !.lag = lag]
    /\ held' = [held EXCEPT ![order.direction] =
                    IF order.side = "BUY" THEN @ + order.size ELSE @ - order.size]
    /\ UNCHANGED <<resting, moVars>>
    /\ UNCHANGED notMo

\* the exchange catches up: size_matched is reported
ExchSettle ==
    /\ order.status = "MATCHED"
    /\ order.lag
    /\ order' = [order EXCEPT !.lag = FALSE]
    /\ UNCHANGED <<held, resting, moVars>>
    /\ UNCHANGED notMo

\* the exchange cancels the resting order
ExchCancel ==
    /\ order.status = "LIVE"
    /\ order' = [order EXCEPT !.status = "CANCELED"]
    /\ UNCHANGED <<held, resting, moVars>>
    /\ UNCHANGED notMo

\* monitor_order lines 313-321: the timeout is over; cancel (the cancel may
\* raise, which is swallowed) and return TIMEOUT
MoTimeout(cancel_ok) ==
    /\ mo_pc = "poll"
    /\ mo_elapsed > mo_cfg.timeout
    /\ order' = IF cancel_ok /\ order.status = "LIVE"
                  THEN [order EXCEPT !.status = "CANCELED"] ELSE order
    /\ mo_ret' = [NoMoRet EXCEPT !.status = "TIMEOUT"]
    /\ mo_pc' = "done"
    /\ UNCHANGED <<held, resting, mo_elapsed, mo_cfg>>
    /\ UNCHANGED notMo

\* monitor_order lines 323-329: get_order raised; sleep and poll again
MoPollError ==
    /\ mo_pc = "poll"
    /\ mo_elapsed <= mo_cfg.timeout
    /\ mo_elapsed' = mo_elapsed + mo_cfg.interval
    /\ UNCHANGED <<exchVars, mo_pc, mo_cfg, mo_ret>>
    /\ UNCHANGED notMo

\* monitor_order lines 323-364: one poll that got an answer
MoPoll ==
    /\ mo_pc = "poll"
    /\ mo_elapsed <= mo_cfg.timeout
    /\ LET o == OrderDetails(order) IN
        IF o.status = "MATCHED"
          THEN IF o.size_matched = 0 /\ o.original_size > 0
                 THEN /\ mo_pc' = "requery"
                      /\ mo_ret' = [NoMoRet EXCEPT !.status = "FILLED",
                                        !.has = TRUE, !.details = o,
                                        !.zero = TRUE]
                      /\ UNCHANGED mo_elapsed
                 ELSE /\ mo_pc' = "done"
                      /\ mo_ret' = [NoMoRet EXCEPT !.status = "FILLED",
                                        !.has = TRUE, !.details = o,
                                        !.zero = (o.size_matched = 0)]
                      /\ UNCHANGED mo_elapsed
        ELSE IF o.status = "CANCELED"
          THEN /\ mo_pc' = "done"
               /\ mo_ret' = [NoMoRet EXCEPT !.status = "CANCELLED",
                                 !.has = TRUE, !.details = o]
               /\ UNCHANGED mo_elapsed
        ELSE /\ mo_elapsed' = mo_elapsed + mo_cfg.interval
             /\ UNCHANGED <<mo_pc, mo_ret>>
    /\ UNCHANGED <<exchVars, mo_cfg>>
    /\ UNCHANGED notMo

\* (mutant) the answer of the re-query is dropped
MoRequery_KeepFirst(ok) ==
    /\ mo_pc = "requery"
    /\ mo_ret' = [mo_ret EXCEPT !.requeries = @ + 1, !.requery_ok = ok]
    /\ mo_pc' = "done"
    /\ UNCHANGED <<exchVars, mo_elapsed, mo_cfg>>
    /\ UNCHANGED notMo

\* monitor_order lines 349-357: the one re-query after a zero size_matched;
\* when it raises, the first answer is returned
MoRequery(ok) ==
    /\ mo_pc = "requery"
    /\ mo_ret' = [mo_ret EXCEPT
                     !.details = IF ok THEN OrderDetails(order) ELSE @,
                     !.requeries = @ + 1, !.requery_ok = ok]
    /\ mo_pc' = "done"
    /\ UNCHANGED <<exchVars, mo_elapsed, mo_cfg>>
    /\ UNCHANGED notMo

\* ------------------------------------------------------------------------
\* Claims: monitor_order
\* ------------------------------------------------------------------------
\* C11: when the poll reports the order matched with zero matched size,
\* monitor_order re-queries exactly once before it returns FILLED, the details
\* returned are those of the re-query when it answered, and no order is
\* re-queried more than once.
C11_RequeryOnce ==
    /\ [](/\ mo_ret.requeries <= 1
          /\ mo_pc = "requery" => (mo_ret.zero /\ mo_ret.requeries = 0)
          /\ (mo_pc = "done" /\ mo_ret.status = "FILLED") =>
                (mo_ret.requeries = IF mo_ret.zero THEN 1 ELSE 0)
          /\ (mo_pc = "done" /\ mo_ret.status # "FILLED") =>
                mo_ret.requeries = 0)
    /\ [][(mo_pc = "requery" /\ mo_pc' # "requery") =>
            /\ mo_pc' = "done"
            /\ mo_ret'.status = "FILLED"
            /\ mo_ret'.details = IF mo_ret'.requery_ok THEN OrderDetails(order)
                                 ELSE mo_ret.details]_vars

\* C11 witness: a zero size_matched was polled, the one re-query answered with
\* the matched size, and FILLED was returned with it
C11_Witness ==
    /\ mo_pc = "done"
    /\ mo_ret.status = "FILLED"
    /\ mo_ret.zero
    /\ mo_ret.requeries = 1
    /\ mo_ret.requery_ok
    /\ mo_ret.details.size_matched > 0

\* ------------------------------------------------------------------------
\* handle_buy / execute_hotkey / execute_buy_market, and check_limit
\* ------------------------------------------------------------------------
BUY_PRICE_OFFSET == 2
MAX_TOKEN_PRICE == 99
MIN_SHARES == 5
ORDER_MONITOR_TIMEOUT == 30
ORDER_MONITOR_INTERVAL == 2

\* Bounds of the model
MaxBuys == 2                         \* handle_buy calls
Amounts == {4000, 4949, 5000}        \* trade_amount, in 1/1000 USD
BasePrices == {0, 50, 98}            \* get_price(token, "BUY"); 0 = failed
ExitQuotes == {0, 50}                \* the SELL quote; 0 = failed
Limits == {60000}                    \* POSITION_LIMIT = 6 USD
StartBalance == 200000               \* 20 USD

\* Python round(n / d) for n >= 0, d > 0: to the nearest, ties to even
RoundDiv(n, d) ==
    LET q == n \div d
        r == n % d IN
    IF 2 * r > d THEN q + 1
    ELSE IF 2 * r < d THEN q
    ELSE IF q % 2 = 0 THEN q ELSE q + 1

\* (mutant) the price is not capped
BuyPrice_NoCap(base) == base + BUY_PRICE_OFFSET

\* execute_buy_market line 148
BuyPrice(base) == Min(base + BUY_PRICE_OFFSET, MAX_TOKEN_PRICE)

\* execute_buy_market line 149: round(amount_usd / price, 2), in 1/100 share,
\* for an amount in 1/1000 USD and a price in cents
BuyShares(amount, price) == RoundDiv(10 * amount, price)

\* check_limit lines 254-288: the projected exposure and the verdict
ProjectedExposure(up_shares, down_shares, up_price, down_price, orders, new) ==
    (up_shares * up_price) + (down_shares * down_price) + orders + new

check_limit(up_shares, down_shares, up_price, down_price, orders, new, lim) ==
    ProjectedExposure(up_shares, down_shares, up_price, down_price, orders, new)
        <= lim

NoReq == [direction |-> "none", price |-> 0, size |-> 0]
NoPosted == [price |-> 0, size |-> 0, amount |-> 0, base |-> 0, exposure |-> 0]
\* handle_buy's (info, ...): ok = info is not None, with its shares and price
NoBuyRet == [called |-> FALSE, ok |-> FALSE, msg |-> "none", shares |-> 0,
             price |-> 0, amount |-> 0, base |-> 0]

InitBuy ==
    /\ buy_pc = "idle"
    /\ order_req = NoReq
    /\ buy_ret = NoBuyRet
    /\ balance = StartBalance
    /\ trade_log = 0
    /\ buys = 0
    /\ position_limit \in Limits
    /\ posted = NoPosted

\* handle_buy -> execute_hotkey -> execute_buy_market lines 142-151: the price
\* is fetched and the order sized; a failure returns through handle_buy line 332
BuyEnter(d, amount, base) ==
    /\ buy_pc = "idle"
    /\ buys < MaxBuys
    /\ buys' = buys + 1
    /\ IF base <= 0
         THEN /\ buy_ret' = [NoBuyRet EXCEPT !.called = TRUE, !.msg = "price",
                                             !.amount = amount, !.base = base]
              /\ UNCHANGED <<buy_pc, order_req>>
       ELSE IF BuyShares(amount, BuyPrice(base)) < MIN_SHARES * 100
         THEN /\ buy_ret' = [NoBuyRet EXCEPT !.called = TRUE, !.msg = "min_shares",
                                             !.amount = amount, !.base = base]
              /\ UNCHANGED <<buy_pc, order_req>>
       ELSE /\ buy_pc' = "submit"
            /\ order_req' = [direction |-> d, price |-> BuyPrice(base),
                             size |-> BuyShares(amount, BuyPrice(base))]
            /\ buy_ret' = [NoBuyRet EXCEPT !.amount = amount, !.base = base]
    /\ UNCHANGED <<positions, clock, balance, trade_log, position_limit, posted,
                   exchVars, moVars>>
    /\ UNCHANGED notBuy

\* execute_buy_market lines 155-174: the order is posted and its id returned;
\* monitor_order starts. up_price and down_price are the SELL quotes of the
\* moment, as check_limit would read them.
SubmitOk(up_price, down_price) ==
    /\ buy_pc = "submit"
    /\ order' = [direction |-> order_req.direction, side |-> "BUY",
                 price |-> order_req.price, size |-> order_req.size,
                 status |-> "LIVE", lag |-> FALSE]
    /\ posted' =
          [price |-> order_req.price, size |-> order_req.size,
           amount |-> buy_ret.amount, base |-> buy_ret.base,
           exposure |-> ProjectedExposure(held["up"], held["down"], up_price,
                            down_price, resting,
                            order_req.price * order_req.size)]
    /\ buy_pc' = "monitor"
    /\ mo_pc' = "poll"
    /\ mo_elapsed' = 0
    /\ mo_cfg' = [interval |-> ORDER_MONITOR_INTERVAL,
                  timeout |-> ORDER_MONITOR_TIMEOUT]
    /\ mo_ret' = NoMoRet
    /\ UNCHANGED <<positions, clock, held, resting, order_req, buy_ret, balance,
                   trade_log, buys, position_limit>>
    /\ UNCHANGED notBuy

\* (mutant) a failed submit is written to the trade log
SubmitFail_LogsTrade(msg) ==
    /\ buy_pc = "submit"
    /\ buy_ret' = [buy_ret EXCEPT !.called = TRUE, !.msg = msg]
    /\ buy_pc' = "idle"
    /\ order_req' = NoReq
    /\ trade_log' = trade_log + 1
    /\ UNCHANGED <<positions, clock, balance, buys, position_limit, posted,
                   exchVars, moVars>>
    /\ UNCHANGED notBuy

\* execute_buy_market lines 166-171: the submit raised or timed out, or the
\* response carries no order id
SubmitFail(msg) ==
    /\ buy_pc = "submit"
    /\ buy_ret' = [buy_ret EXCEPT !.called = TRUE, !.msg = msg]
    /\ buy_pc' = "idle"
    /\ order_req' = NoReq
    /\ UNCHANGED <<positions, clock, balance, trade_log, buys, position_limit,
                   posted,
                   exchVars, moVars>>
    /\ UNCHANGED notBuy

InitLate == late = NoReq

\* execute_buy_market lines 166-169: fut.result(timeout=15) timed out; the
\* failure is returned while _submit_order keeps running in the pool
SubmitTimeout ==
    /\ buy_pc = "submit"
    /\ late = NoReq
    /\ late' = order_req
    /\ buy_ret' = [buy_ret EXCEPT !.called = TRUE, !.msg = "submit_error"]
    /\ buy_pc' = "idle"
    /\ order_req' = NoReq
    /\ UNCHANGED <<positions, clock, balance, trade_log, buys, position_limit,
                   posted, exchVars, moVars>>
    /\ UNCHANGED notLate

\* _submit_order lines 157-164 in the pool, after the wait was given up:
\* post_order goes through and the order rests on the exchange
LatePost ==
    /\ late # NoReq
    /\ resting' = resting + late.price * late.size
    /\ late' = NoReq
    /\ UNCHANGED <<positions, clock, held, order, moVars, buyVars>>
    /\ UNCHANGED notLate

\* _submit_order raises in the pool: nothing is posted
LateRaise ==
    /\ late # NoReq
    /\ late' = NoReq
    /\ UNCHANGED <<positions, clock, exchVars, moVars, buyVars>>
    /\ UNCHANGED notLate

\* execute_buy_market lines 176-181 and handle_buy lines 324-333, once
\* monitor_order has returned
BuyReturn ==
    /\ buy_pc = "monitor"
    /\ mo_pc = "done"
    /\ IF mo_ret.status = "FILLED"
         THEN LET sm == IF mo_ret.has THEN mo_ret.details.size_matched ELSE 0
                  p == IF mo_ret.has THEN mo_ret.details.price
                       ELSE order_req.price IN
              /\ buy_ret' = [buy_ret EXCEPT !.called = TRUE, !.ok = TRUE,
                                            !.msg = "filled", !.shares = sm,
                                            !.price = p]
              /\ positions' = Append(positions,
                     Position(order_req.direction, p, sm, clock, "local"))
              /\ balance' = balance - p * sm
              /\ trade_log' = trade_log + 1
         ELSE /\ buy_ret' = [buy_ret EXCEPT !.called = TRUE,
                                            !.msg = "not_filled"]
              /\ UNCHANGED <<positions, balance, trade_log>>
    /\ buy_pc' = "idle"
    /\ order_req' = NoReq
    /\ mo_pc' = "idle"
    /\ mo_elapsed' = 0
    /\ mo_cfg' = NoCfg
    /\ mo_ret' = NoMoRet
    /\ resting' = IF order.status = "LIVE"
                    THEN resting + order.price * order.size ELSE resting
    /\ order' = NoOrder
    /\ UNCHANGED <<clock, held, buys, position_limit, posted>>
    /\ UNCHANGED notBuy

NextBuy ==
    \/ \E d \in Dirs, amount \in Amounts, base \in BasePrices :
          BuyEnter(d, amount, base)
    \/ \E up_price \in ExitQuotes, down_price \in ExitQuotes :
          SubmitOk(up_price, down_price)
    \/ \E msg \in {"submit_error", "no_order_id"} : SubmitFail(msg)
    \/ \E lag \in BOOLEAN : ExchMatch(lag)
    \/ ExchSettle
    \/ ExchCancel
    \/ \E ok \in BOOLEAN : MoTimeout(ok)
    \/ MoPollError
    \/ MoPoll
    \/ \E ok \in BOOLEAN : MoRequery(ok)
    \/ BuyReturn

\* the buy path with a submit task that outlives its 15 s wait
NextLate ==
    \/ \E d \in Dirs, amount \in Amounts, base \in BasePrices :
          BuyEnter(d, amount, base)
    \/ \E up_price \in ExitQuotes, down_price \in ExitQuotes :
          SubmitOk(up_price, down_price)
    \/ \E msg \in {"submit_error", "no_order_id"} : SubmitFail(msg)
    \/ \E lag \in BOOLEAN : ExchMatch(lag)
    \/ ExchSettle
    \/ ExchCancel
    \/ \E ok \in BOOLEAN : MoTimeout(ok)
    \/ MoPollError
    \/ MoPoll
    \/ \E ok \in BOOLEAN : MoRequery(ok)
    \/ BuyReturn
    \/ SubmitTimeout
    \/ LatePost
    \/ LateRaise

\* ------------------------------------------------------------------------
\* Claims: buying
\* ------------------------------------------------------------------------
\* C6: no buy order is submitted through the buy path while the projected
\* exposure (on-exchange UP and DOWN shares at their exit-side quotes, plus
\* the resting open orders, plus the new order's value) is above the ceiling.
C6_NoBuyAboveCeiling ==
    posted # NoPosted => posted.exposure <= position_limit

\* the price the claim names: min(bestPrice + 0.02, 0.99), in cents
C10_Price(base) == IF base + 2 <= 99 THEN base + 2 ELSE 99

\* C10 as stated: no order is submitted when the best price is not positive or
\* when amount / min(bestPrice + 0.02, 0.99) is below 5 shares (both return a
\* null result with a message); a submitted order has price <= 0.99 and
\* size >= 5.
C10_AsStated ==
    /\ posted # NoPosted =>
        /\ posted.base > 0
        /\ 10 * posted.amount >= 500 * C10_Price(posted.base)
        /\ posted.price <= 99
        /\ posted.size >= 500
    /\ (buy_ret.called /\ (buy_ret.base <= 0
                           \/ 10 * buy_ret.amount < 500 * C10_Price(buy_ret.base)))
         => (~buy_ret.ok /\ buy_ret.msg \in {"price", "min_shares"})

\* C10 amended: no order is submitted when the best price is not positive or
\* when shares = round(amount / min(bestPrice + 0.02, 0.99), 2) is below 5
\* (both return a null result with a message); a submitted order has
\* price <= 0.99 and size >= 5.
C10_RoundedSharesGate ==
    /\ posted # NoPosted =>
        /\ posted.base > 0
        /\ RoundDiv(10 * posted.amount, C10_Price(posted.base)) >= 500
        /\ posted.price <= 99
        /\ posted.size >= 500
    /\ (buy_ret.called /\ (buy_ret.base <= 0
                           \/ RoundDiv(10 * buy_ret.amount,
                                       C10_Price(Max(buy_ret.base, 1))) < 500))
         => (~buy_ret.ok /\ buy_ret.msg \in {"price", "min_shares"})

\* C10 witness: one buy was rejected for its size, after an order of exactly
\* 5 shares at the capped price 0.99 had been submitted for an amount whose
\* unrounded quotient is below 5.
C10_Witness ==
    /\ buy_ret.called
    /\ buy_ret.msg = "min_shares"
    /\ ~buy_ret.ok
    /\ posted.price = 99
    /\ posted.size = 500
    /\ 10 * posted.amount < 500 * 99

\* C14: every position of the local list has shares > 0, after any sequence of
\* buys (a fill reported with zero matched size included). handle_buy appends
\* the dict execute_hotkey built whenever execute_buy_market returned a result,
\* and a FILLED result whose size_matched is 0 is such a result.
C14_PositionsHaveShares ==
    \A i \in 1..Len(positions) : positions[i].shares > 0

\* the step on which handle_buy returns
BuyReturns == buy_pc' = "idle" /\ (buy_pc # "idle" \/ buys' # buys)

C28_FailedBuyLeavesNoOrder ==
    (buy_pc = "idle" /\ buy_ret.called /\ ~buy_ret.ok) => resting = 0

\* ------------------------------------------------------------------------
\* monitor_tp_sl
\* ------------------------------------------------------------------------
\* Time is counted in tenths of a second: one key check sleeps 0.1 s.
KEY_CHECKS == 5

\* Bounds of the model
MaxMons == 1                          \* monitor_tp_sl calls
Prices == {0, 40, 55, 58, 60, 61}     \* get_price(token, "BUY"); 0 = failed
AwaitWaits == {0, 10}                 \* time blocked in fut_price.result()
MonArgs == [tp : {60}, sl : {45}, tp_above : BOOLEAN, sl_above : BOOLEAN,
            timeout_sec : {1}]

NoFut == [state |-> "none", val |-> 0]
NoMonArgs == [tp |-> 0, sl |-> 0, tp_above |-> FALSE, sl_above |-> FALSE,
              timeout_sec |-> 0]
\* (outcome, price); inflight notes whether the cancel key came while the
\* fetch was still running
NoMonRet == [outcome |-> "NONE", price |-> 0, inflight |-> FALSE]

InitMon ==
    /\ mon_pc = "idle"
    /\ mon_args = NoMonArgs
    /\ mon_price = 0
    /\ mon_elapsed = 0
    /\ key_i = 0
    /\ fut = NoFut
    /\ reads = <<>>
    /\ fetches = 0
    /\ mon_ret = NoMonRet
    /\ mons = 0

\* (mutant) take-profit only strictly beyond the level
TpHit_Strict(a, price) ==
    \/ a.tp_above /\ price > a.tp
    \/ ~a.tp_above /\ price < a.tp

\* monitor_tp_sl lines 272-275
TpHit(a, price) ==
    \/ a.tp_above /\ price >= a.tp
    \/ ~a.tp_above /\ price <= a.tp

\* monitor_tp_sl lines 277-280
SlHit(a, price) ==
    \/ a.sl_above /\ price <= a.sl
    \/ ~a.sl_above /\ price >= a.sl

\* monitor_tp_sl lines 246-251: the call begins
MonEnter(a) ==
    /\ mon_pc \in {"idle", "done"}
    /\ mons < MaxMons
    /\ mons' = mons + 1
    /\ mon_args' = a
    /\ mon_price' = 0
    /\ mon_elapsed' = 0
    /\ key_i' = 0
    /\ fut' = NoFut
    /\ reads' = <<>>
    /\ fetches' = 0
    /\ mon_ret' = NoMonRet
    /\ mon_pc' = "top"
    /\ UNCHANGED notMon

\* monitor_tp_sl lines 253-254: the time is over; the last price is returned,
\* or a price fetched directly (p) when none was read
MonTimeoutReturn(p) ==
    /\ mon_pc = "top"
    /\ mon_elapsed > mon_args.timeout_sec * 10
    /\ mon_ret' = [outcome |-> "TIMEOUT",
                   price |-> IF mon_price > 0 THEN mon_price ELSE p,
                   inflight |-> FALSE]
    /\ fetches' = IF mon_price > 0 THEN fetches ELSE fetches + 1
    /\ mon_pc' = "done"
    /\ UNCHANGED <<mon_args, mon_price, mon_elapsed, key_i, fut, reads, mons>>
    /\ UNCHANGED notMon

\* monitor_tp_sl line 256: the price fetch is handed to the pool
MonSubmit ==
    /\ mon_pc = "top"
    /\ mon_elapsed <= mon_args.timeout_sec * 10
    /\ fut' = [state |-> "pending", val |-> 0]
    /\ fetches' = fetches + 1
    /\ key_i' = 0
    /\ mon_pc' = "keys"
    /\ UNCHANGED <<mon_args, mon_price, mon_elapsed, reads, mon_ret, mons>>
    /\ UNCHANGED notMon

\* a pool worker finishes get_price with the price p
FutComplete(p) ==
    /\ fut.state = "pending"
    /\ fut' = [state |-> "done", val |-> p]
    /\ UNCHANGED <<mon_pc, mon_args, mon_price, mon_elapsed, key_i, reads,
                   fetches, mon_ret, mons>>
    /\ UNCHANGED notMon

\* monitor_tp_sl lines 259-264: one key check
MonKey(key) ==
    /\ mon_pc = "keys"
    /\ key_i < KEY_CHECKS
    /\ IF key = "c"
         THEN /\ mon_pc' = "cancel"
              /\ mon_ret' = [mon_ret EXCEPT !.inflight = (fut.state = "pending")]
              /\ UNCHANGED <<key_i, mon_elapsed>>
         ELSE /\ key_i' = key_i + 1
              /\ mon_elapsed' = mon_elapsed + 1
              /\ UNCHANGED <<mon_pc, mon_ret>>
    /\ UNCHANGED <<mon_args, mon_price, fut, reads, fetches, mons>>
    /\ UNCHANGED notMon

\* (mutant) the cancel path returns without fut_price.result()
MonCancelReturn_NoAwait(p) ==
    /\ mon_pc = "cancel"
    /\ mon_ret' = [mon_ret EXCEPT !.outcome = "CANCEL",
                       !.price = IF mon_price > 0 THEN mon_price ELSE p]
    /\ fetches' = IF mon_price > 0 THEN fetches ELSE fetches + 1
    /\ mon_pc' = "done"
    /\ UNCHANGED <<mon_args, mon_price, mon_elapsed, key_i, fut, reads, mons>>
    /\ UNCHANGED notMon

\* monitor_tp_sl lines 262-263: the fetch is awaited (its price dropped), then
\* the last price is returned, or a price fetched directly (p)
MonCancelReturn(p) ==
    /\ mon_pc = "cancel"
    /\ fut.state = "done"
    /\ fut' = NoFut
    /\ mon_ret' = [mon_ret EXCEPT !.outcome = "CANCEL",
                       !.price = IF mon_price > 0 THEN mon_price ELSE p]
    /\ fetches' = IF mon_price > 0 THEN fetches ELSE fetches + 1
    /\ mon_pc' = "done"
    /\ UNCHANGED <<mon_args, mon_price, mon_elapsed, key_i, reads, mons>>
    /\ UNCHANGED notMon

\* (mutant) the price read is compared without the test of lines 267-268
MonAwait_NoSkip(wait) ==
    /\ mon_pc = "keys"
    /\ key_i = KEY_CHECKS
    /\ fut.state = "done"
    /\ fut' = NoFut
    /\ mon_price' = fut.val
    /\ reads' = Append(reads, fut.val)
    /\ mon_elapsed' = mon_elapsed + wait
    /\ IF TpHit(mon_args, fut.val)
         THEN /\ mon_pc' = "done"
              /\ mon_ret' = [mon_ret EXCEPT !.outcome = "TP", !.price = fut.val]
       ELSE IF SlHit(mon_args, fut.val)
         THEN /\ mon_pc' = "done"
              /\ mon_ret' = [mon_ret EXCEPT !.outcome = "SL", !.price = fut.val]
       ELSE /\ mon_pc' = "top"
            /\ UNCHANGED mon_ret
    /\ UNCHANGED <<mon_args, key_i, fetches, mons>>
    /\ UNCHANGED notMon

\* monitor_tp_sl lines 266-280: the fetch is awaited and its price compared
MonAwait(wait) ==
    /\ mon_pc = "keys"
    /\ key_i = KEY_CHECKS
    /\ fut.state = "done"
    /\ fut' = NoFut
    /\ mon_price' = fut.val
    /\ reads' = Append(reads, fut.val)
    /\ mon_elapsed' = mon_elapsed + wait
    /\ IF fut.val <= 0
         THEN /\ mon_pc' = "top"
              /\ UNCHANGED mon_ret
       ELSE IF TpHit(mon_args, fut.val)
         THEN /\ mon_pc' = "done"
              /\ mon_ret' = [mon_ret EXCEPT !.outcome = "TP", !.price = fut.val]
       ELSE IF SlHit(mon_args, fut.val)
         THEN /\ mon_pc' = "done"
              /\ mon_ret' = [mon_ret EXCEPT !.outcome = "SL", !.price = fut.val]
       ELSE /\ mon_pc' = "top"
            /\ UNCHANGED mon_ret
    /\ UNCHANGED <<mon_args, key_i, fetches, mons>>
    /\ UNCHANGED notMon

NextMon ==
    \/ \E a \in MonArgs : MonEnter(a)
    \/ \E p \in Prices : MonTimeoutReturn(p)
    \/ MonSubmit
    \/ \E p \in Prices : FutComplete(p)
    \/ \E key \in {"", "c"} : MonKey(key)
    \/ \E p \in Prices : MonCancelReturn(p)
    \/ \E wait \in AwaitWaits : MonAwait(wait)

\* ------------------------------------------------------------------------
\* Claims: monitor_tp_sl
\* ------------------------------------------------------------------------
\* C7: with an upward take-profit, the outcome TP comes with the first positive
\* price read that is >= tp, no price fetch is issued after that read, and a
\* positive read >= tp always ends the monitor with TP.
C7_TpAtFirstCrossing ==
    /\ (mon_ret.outcome = "TP" /\ mon_args.tp_above) =>
         LET n == Len(reads) IN
         /\ n > 0
         /\ mon_ret.price = reads[n]
         /\ reads[n] > 0
         /\ reads[n] >= mon_args.tp
         /\ \A i \in 1..(n - 1) : ~(reads[i] > 0 /\ reads[i] >= mon_args.tp)
         /\ fetches = n
         /\ fut.state = "none"
         /\ mon_pc = "done"
    /\ (mon_args.tp_above
        /\ \E i \in 1..Len(reads) : reads[i] > 0 /\ reads[i] >= mon_args.tp)
         => mon_ret.outcome = "TP"

\* C7 witness: the reads 0.55, 0.58, 0.61 against tp 0.60 gave TP at 0.61
C7_Witness ==
    /\ mon_ret.outcome = "TP"
    /\ mon_args.tp_above
    /\ mon_args.tp = 60
    /\ reads = <<55, 58, 61>>
    /\ mon_ret.price = 61
    /\ fetches = 3

\* C8: when monitor_tp_sl has returned (TP, SL, CANCEL or TIMEOUT), no price
\* fetch it handed to the pool is left un-awaited.
C8_NoFetchOutstandingOnReturn ==
    mon_pc = "done" =>
        /\ mon_ret.outcome \in {"TP", "SL", "CANCEL", "TIMEOUT"}
        /\ fut.state = "none"

\* C8 witness: the cancel key came while the fetch was running, and the
\* monitor has returned CANCEL
C8_Witness ==
    /\ mon_pc = "done"
    /\ mon_ret.outcome = "CANCEL"
    /\ mon_ret.inflight
    /\ fetches >= 1

\* AllNonPositive: every price read so far was <= 0
AllNonPositive == \A i \in 1..Len(reads) : reads[i] <= 0

\* C24: a non-positive price read never ends the monitoring with TP or SL and
\* is not compared with the levels: after it the monitor is back at the top of
\* its loop, and while every read was non-positive the only outcomes are
\* CANCEL and TIMEOUT.
C24_NonPositiveReadSkipped ==
    /\ mon_ret.outcome \in {"TP", "SL"} =>
         /\ reads # <<>>
         /\ reads[Len(reads)] > 0
         /\ mon_ret.price = reads[Len(reads)]
    /\ AllNonPositive => mon_ret.outcome \in {"NONE", "CANCEL", "TIMEOUT"}
    /\ (mon_pc = "done" /\ reads # <<>> /\ reads[Len(reads)] <= 0) =>
         mon_ret.outcome \in {"CANCEL", "TIMEOUT"}

\* C24 witness: with a downward take-profit of 0.60 (a read of 0 is <= tp) the
\* reads 0, 0 were followed by further fetches and the monitor ended by CANCEL
C24_Witness ==
    /\ mon_pc = "done"
    /\ ~mon_args.tp_above
    /\ mon_args.tp = 60
    /\ reads = <<0, 0>>
    /\ fetches >= 3
    /\ mon_ret.outcome = "CANCEL"

\* ------------------------------------------------------------------------
\* execute_close_market
\* ------------------------------------------------------------------------
SELL_PRICE_OFFSET == 5
MIN_TOKEN_PRICE == 1
CLOSE_MONITOR_TIMEOUT == 15
CLOSE_ATTEMPTS == 3                   \* for _ in range(3)
DUST == 1                             \* 0.01 share, in 1/100 share

\* Bounds of the model
MaxCloses == 1                        \* execute_close_market calls
CloseQuotes == {0, 50}                \* get_price(token, "SELL"); 0 = failed
HeldShares == {0, 1, 500}             \* on-exchange balances to close

Sides == <<"up", "down">>

NoCloseRet == [called |-> FALSE, msg |-> "none", value |-> 0]
NoSell == [side |-> "none", price |-> 0, size |-> 0, quote |-> 0,
           submit |-> "none"]

InitClose ==
    /\ close_pc = "idle"
    /\ attempt = 0
    /\ side_i = 0
    /\ shares_read = [d \in Dirs |-> 0]
    /\ sells = [d \in Dirs |-> 0]
    /\ last_sell = NoSell
    /\ results = 0
    /\ total_value = 0
    /\ close_ret = NoCloseRet
    /\ closes = 0

\* (mutant) the sell price is not floored
SellPrice_NoFloor(base_price) == base_price - SELL_PRICE_OFFSET

\* execute_close_market line 203
SellPrice(base_price) == Max(base_price - SELL_PRICE_OFFSET, MIN_TOKEN_PRICE)

\* get_token_position lines 213-225: the balance, or 0.0 when the call raised
get_token_position(d, ok) == IF ok THEN held[d] ELSE 0

\* trades made elsewhere leave sh shares of direction d on the exchange
ExchTrade(d, sh) ==
    /\ close_pc = "idle"
    /\ closes < MaxCloses
    /\ held[d] # sh
    /\ held' = [held EXCEPT ![d] = sh]
    /\ UNCHANGED <<order, resting, moVars, closeVars>>
    /\ UNCHANGED notClose

\* execute_close_market lines 184-187: the call begins
CloseEnter ==
    /\ close_pc = "idle"
    /\ closes < MaxCloses
    /\ closes' = closes + 1
    /\ close_pc' = "attempt"
    /\ attempt' = 0
    /\ side_i' = 0
    /\ shares_read' = [d \in Dirs |-> 0]
    /\ sells' = [d \in Dirs |-> 0]
    /\ last_sell' = NoSell
    /\ results' = 0
    /\ total_value' = 0
    /\ close_ret' = NoCloseRet
    /\ UNCHANGED <<exchVars, moVars>>
    /\ UNCHANGED notClose

\* execute_close_market lines 189-196: an attempt begins with both balances
\* read; below the dust threshold on both sides the call returns
CloseRead(up_ok, down_ok) ==
    /\ close_pc = "attempt"
    /\ attempt < CLOSE_ATTEMPTS
    /\ LET shares_up == get_token_position("up", up_ok)
           shares_down == get_token_position("down", down_ok) IN
        /\ shares_read' = [up |-> shares_up, down |-> shares_down]
        /\ attempt' = attempt + 1
        /\ IF shares_up < DUST /\ shares_down < DUST
             THEN /\ close_ret' = [called |-> TRUE,
                                   msg |-> IF results > 0 THEN "closed"
                                           ELSE "no_positions",
                                   value |-> total_value]
                  /\ close_pc' = "idle"
                  /\ side_i' = 0
             ELSE /\ close_pc' = "side"
                  /\ side_i' = 1
                  /\ UNCHANGED close_ret
    /\ UNCHANGED <<sells, last_sell, results, total_value, closes, exchVars,
                   moVars>>
    /\ UNCHANGED notClose

\* execute_close_market line 243: the attempts are used up
CloseExhausted ==
    /\ close_pc = "attempt"
    /\ attempt >= CLOSE_ATTEMPTS
    /\ close_ret' = [called |-> TRUE,
                     msg |-> IF results > 0 THEN "partial"
                             ELSE "could_not_close",
                     value |-> total_value]
    /\ close_pc' = "idle"
    /\ UNCHANGED <<attempt, side_i, shares_read, sells, last_sell, results,
                   total_value, closes, exchVars, moVars>>
    /\ UNCHANGED notClose

\* where the for loop over the sides goes after side i (line 241: sleep, then
\* the next attempt)
AfterSidePc(i) == IF i >= Len(Sides) THEN "attempt" ELSE "side"
AfterSide(i) == IF i >= Len(Sides) THEN 0 ELSE i + 1

\* execute_close_market lines 198-231: one side. A balance below the dust
\* threshold is skipped; otherwise the sell is priced from the quote
\* base_price and submitted (allow_ok: update_balance_allowance went through,
\* its failure is swallowed; submit: what post_order did).
CloseSide(base_price, allow_ok, submit) ==
    /\ close_pc = "side"
    /\ LET d == Sides[side_i]
           shares == shares_read[d]
           market_price == SellPrice(base_price) IN
        IF shares < DUST
          THEN /\ close_pc' = AfterSidePc(side_i)
               /\ side_i' = AfterSide(side_i)
               /\ UNCHANGED <<sells, last_sell, exchVars, moVars>>
          ELSE /\ sells' = [sells EXCEPT ![d] = @ + 1]
               /\ last_sell' = [side |-> d, price |-> market_price,
                                size |-> shares, quote |-> base_price,
                                submit |-> submit]
               /\ IF submit = "ok"
                    THEN /\ order' = [direction |-> d, side |-> "SELL",
                                      price |-> market_price, size |-> shares,
                                      status |-> "LIVE", lag |-> FALSE]
                         /\ mo_pc' = "poll"
                         /\ mo_elapsed' = 0
                         /\ mo_cfg' = [interval |-> 1,
                                       timeout |-> CLOSE_MONITOR_TIMEOUT]
                         /\ mo_ret' = NoMoRet
                         /\ close_pc' = "monitor"
                         /\ UNCHANGED <<side_i, held, resting>>
                    ELSE /\ close_pc' = AfterSidePc(side_i)
                         /\ side_i' = AfterSide(side_i)
                         /\ UNCHANGED <<exchVars, moVars>>
    /\ UNCHANGED <<attempt, shares_read, results, total_value, close_ret,
                   closes>>
    /\ UNCHANGED notClose

\* execute_close_market lines 230-237: monitor_order has returned
CloseMonitorReturn ==
    /\ close_pc = "monitor"
    /\ mo_pc = "done"
    /\ IF mo_ret.status = "FILLED"
         THEN LET sm == IF mo_ret.has THEN mo_ret.details.size_matched ELSE 0
                  p == IF mo_ret.has THEN mo_ret.details.price
                       ELSE order.price IN
              /\ total_value' = total_value + sm * p
              /\ results' = results + 1
         ELSE UNCHANGED <<total_value, results>>
    /\ close_pc' = AfterSidePc(side_i)
    /\ side_i' = AfterSide(side_i)
    /\ mo_pc' = "idle"
    /\ mo_elapsed' = 0
    /\ mo_cfg' = NoCfg
    /\ mo_ret' = NoMoRet
    /\ order' = NoOrder
    /\ UNCHANGED <<held, resting, attempt, shares_read, sells, last_sell,
                   close_ret, closes>>
    /\ UNCHANGED notClose

\* the steps of the thread that runs execute_close_market
CloseThread ==
    \/ \E up_ok \in BOOLEAN, down_ok \in BOOLEAN : CloseRead(up_ok, down_ok)
    \/ CloseExhausted
    \/ \E base_price \in CloseQuotes, allow_ok \in BOOLEAN,
          submit \in {"ok", "error", "no_order_id"} :
          CloseSide(base_price, allow_ok, submit)
    \/ \E ok \in BOOLEAN : MoTimeout(ok)
    \/ MoPollError
    \/ MoPoll
    \/ \E ok \in BOOLEAN : MoRequery(ok)
    \/ CloseMonitorReturn

NextClose ==
    \/ \E d \in Dirs, sh \in HeldShares : ExchTrade(d, sh)
    \/ CloseEnter
    \/ \E up_ok \in BOOLEAN, down_ok \in BOOLEAN : CloseRead(up_ok, down_ok)
    \/ CloseExhausted
    \/ \E base_price \in CloseQuotes, allow_ok \in BOOLEAN,
          submit \in {"ok", "error", "no_order_id"} :
          CloseSide(base_price, allow_ok, submit)
    \/ CloseMonitorReturn
    \/ \E lag \in BOOLEAN : ExchMatch(lag)
    \/ ExchSettle
    \/ ExchCancel
    \/ \E ok \in BOOLEAN : MoTimeout(ok)
    \/ MoPollError
    \/ MoPoll
    \/ \E ok \in BOOLEAN : MoRequery(ok)

\* ------------------------------------------------------------------------
\* Claims: execute_close_market
\* ------------------------------------------------------------------------
\* the price the claim names: max(exitQuote - 0.05, 0.01), in cents
C9_Price(quote) == IF quote - 5 >= 1 THEN quote - 5 ELSE 1

C9_Safety ==
    /\ attempt <= 3
    /\ \A d \in Dirs : sells[d] <= 3 /\ sells[d] <= attempt
    /\ last_sell # NoSell =>
        /\ last_sell.size >= 1
        /\ last_sell.price = C9_Price(last_sell.quote)
    /\ close_pc \in {"side", "monitor"}
         => (shares_read["up"] >= 1 \/ shares_read["down"] >= 1)
    /\ (close_pc = "idle" /\ close_ret.called
        /\ shares_read["up"] < 1 /\ shares_read["down"] < 1)
         => close_ret.msg \in {"closed", "no_positions"}
    /\ close_ret.called
         => close_ret.msg \in {"closed", "no_positions", "partial",
                               "could_not_close"}

\* C9: execute_close_market makes at most 3 attempts and at most 3 sell
\* submissions per side, returns as soon as both balances read are below the
\* dust threshold 0.01, sells only a side whose balance is at least 0.01, at
\* max(exitQuote - 0.05, 0.01), and a call in progress always returns a result
\* message, whichever exchange calls fail or time out.
C9_BoundedCloseTerminates ==
    /\ []C9_Safety
    /\ [](close_pc # "idle" => <>(close_pc = "idle" /\ close_ret.called))

\* C9 witness: both sides were submitted in each of the 3 attempts, the last
\* one at the floor price, nothing filled, and the call returned
C9_Witness ==
    /\ close_ret.called
    /\ close_ret.msg = "could_not_close"
    /\ attempt = 3
    /\ sells["up"] = 3
    /\ sells["down"] = 3
    /\ last_sell.quote = 0
    /\ last_sell.price = 1

\* ------------------------------------------------------------------------
\* Signal engine: compute_signal, get_market_phase, and the opportunity test
\* ------------------------------------------------------------------------
\* Scores are in millionths, component scores in thousandths, weights and
\* multipliers in hundredths (VOL_AMPLIFIER in tenths). Inputs: rsi as it is;
\* score, macd_hist_delta, vwap_pos, vwap_slope, bb_pos, the position in the
\* S/R range and trend_strength in hundredths; btc_var in thousandths of a
\* percent; poly_var and prices in cents. Times are in hundredths of a minute.
\* Arithmetic is exact; the inputs are chosen so that every division is.
W_MOMENTUM == 30
W_DIVERGENCE == 20
W_SR == 10
W_MACD == 15
W_VWAP == 15
W_BB == 10
VOL_THRESHOLD == 3
VOL_AMPLIFIER == 13
REGIME_CHOP_MULT == 50
REGIME_TREND_BOOST == 115
REGIME_COUNTER_MULT == 70
PHASE_EARLY_THRESHOLD == 50
PHASE_MID_THRESHOLD == 30
PHASE_LATE_THRESHOLD == 70
PHASE_CLOSING_THRESHOLD == 999
SIGNAL_NEUTRAL_ZONE == 100000
SIGNAL_STRENGTH_BEEP == 50
SUGGESTION_MIN_STRENGTH == 30
ONE == 1000000                        \* 1.0 as a score

\* Inputs of the model. The quantities compute_signal derives from the price
\* history (trend_strength, btc_var, poly_var, the position in the S/R range)
\* are inputs; hist_ok says the history is long enough for them to be used.
SigInputs ==
    [up_buy : {0, 50}, down_buy : {50}, btc_price : {0, 100000},
     binance : BOOLEAN,
     rsi : {20, 70}, score : {-60, 25}, hist_ok : BOOLEAN,
     trend : {0, 40}, btc_var : {-200, 50}, poly_var : {0},
     pos : {10, 90}, macd_hist : {1}, macd_hist_delta : {-60, 30},
     vwap_pos : {0, 5}, vwap_slope : {30}, bb_pos : {10, 50},
     bb_squeeze : BOOLEAN, atr : {0, 50},
     regime : {"RANGE", "CHOP", "TREND_UP", "TREND_DOWN"}]
PhaseTimes == {0, 50, 89, 91, 100, 200, 494, 495, 496, 500, 700, 989, 990,
               991, 1000, 1400, 1500}
PhaseWindows == {0, 5, 15}
MainTimes == {0, 50, 89, 100, 101, 200, 500, 501, 990, 1000, 1001, 1400}

Abs(x) == IF x < 0 THEN -x ELSE x
Clamp(x, lo, hi) == Max(lo, Min(hi, x))

\* compute_signal lines 94-100, in thousandths
RsiC(rsi) ==
    IF rsi < 25 THEN 1000
    ELSE IF rsi < 35 THEN 600
    ELSE IF rsi < 45 THEN 200
    ELSE IF rsi > 75 THEN -1000
    ELSE IF rsi > 65 THEN -600
    ELSE IF rsi > 55 THEN -200
    ELSE 0

\* compute_signal line 102, in ten-thousandths
Momentum(rsi, bin_score) ==
    RsiC(rsi) * 4 + Clamp(bin_score * 20, -1000, 1000) * 6

\* compute_signal lines 106-117, in thousandths
DivScore(hist_ok, btc_var, poly_var) ==
    IF ~hist_ok THEN 0
    ELSE IF btc_var > 10 /\ poly_var < 2 THEN Min(btc_var * 8, 1000)
    ELSE IF btc_var < -10 /\ poly_var > -2 THEN Max(btc_var * 8, -1000)
    ELSE 0

\* compute_signal lines 120-132, in thousandths
SrRaw(hist_ok, pos) ==
    IF ~hist_ok THEN 0
    ELSE IF pos < 20 THEN 800
    ELSE IF pos < 35 THEN 400
    ELSE IF pos > 80 THEN -800
    ELSE IF pos > 65 THEN -400
    ELSE 0

\* compute_signal lines 134-142, in millionths
SrScore(trend, sr_raw) ==
    IF Abs(trend) > 30
         /\ ((trend > 0 /\ sr_raw < 0) \/ (trend < 0 /\ sr_raw > 0))
      THEN sr_raw * (1000 - Min(Abs(trend) * 20, 1000))
      ELSE sr_raw * 1000

\* compute_signal lines 145-158, in thousandths
MacdScore(macd_hist, delta) ==
    LET base == IF Abs(delta) > 50 THEN (IF delta > 0 THEN 1000 ELSE -1000)
                ELSE IF Abs(delta) > 10 THEN (IF delta > 0 THEN 500 ELSE -500)
                ELSE 0 IN
    IF macd_hist > 0 /\ delta > 0 THEN Min((base * 12) \div 10, 1000)
    ELSE IF macd_hist < 0 /\ delta < 0 THEN Max((base * 12) \div 10, -1000)
    ELSE base

\* compute_signal lines 161-175, in thousandths
VwapScore(vwap_pos, vwap_slope) ==
    Clamp((IF vwap_pos > 2 THEN 500 ELSE IF vwap_pos < -2 THEN -500 ELSE 0)
          + (IF vwap_slope > 20 THEN 500
             ELSE IF vwap_slope < -20 THEN -500 ELSE 0),
          -1000, 1000)

\* compute_signal lines 178-193, in thousandths
BbScore(bb_pos, bb_squeeze) ==
    LET base == IF bb_pos < 15 THEN 800
                ELSE IF bb_pos < 30 THEN 400
                ELSE IF bb_pos > 85 THEN -800
                ELSE IF bb_pos > 70 THEN -400
                ELSE 0 IN
    IF bb_squeeze THEN Clamp((base * 15) \div 10, -1000, 1000) ELSE base

\* compute_signal lines 196-198: vol_pct > VOL_THRESHOLD, vol_pct in percent
HighVol(atr, btc_price) == atr * 10000 > VOL_THRESHOLD * btc_price

\* compute_signal lines 79-193: the weighted sum, in millionths
WeightedScore(x) ==
      Momentum(x.rsi, x.score) * W_MOMENTUM
    + DivScore(x.hist_ok, x.btc_var, x.poly_var) * W_DIVERGENCE * 10
    + (SrScore(IF x.hist_ok THEN x.trend ELSE 0, SrRaw(x.hist_ok, x.pos))
         * W_SR) \div 100
    + MacdScore(x.macd_hist, x.macd_hist_delta) * W_MACD * 10
    + VwapScore(x.vwap_pos, x.vwap_slope) * W_VWAP * 10
    + BbScore(x.bb_pos, x.bb_squeeze) * W_BB * 10

\* compute_signal lines 199-200
Amplified(score, high_vol) ==
    IF high_vol THEN (score * VOL_AMPLIFIER) \div 10 ELSE score

\* compute_signal lines 203-210
RegimeAdjusted(score, regime) ==
    IF regime = "CHOP" THEN (score * REGIME_CHOP_MULT) \div 100
    ELSE IF regime \in {"TREND_UP", "TREND_DOWN"}
      THEN IF (score > 0 /\ regime = "TREND_UP")
              \/ (score < 0 /\ regime = "TREND_DOWN")
             THEN (score * REGIME_TREND_BOOST) \div 100
             ELSE (score * REGIME_COUNTER_MULT) \div 100
    ELSE score

\* compute_signal line 212: max(-1.0, min(1.0, score))
FinalScore(x) ==
    Clamp(RegimeAdjusted(Amplified(WeightedScore(x),
                                   HighVol(x.atr, x.btc_price)), x.regime),
          -ONE, ONE)

\* compute_signal line 216: int(abs(score) * 100)
Strength(score) == Abs(score) \div 10000

\* compute_signal lines 213-215
Direction(score) ==
    IF score > SIGNAL_NEUTRAL_ZONE THEN "UP"
    ELSE IF score < -SIGNAL_NEUTRAL_ZONE THEN "DOWN"
    ELSE "NEUTRAL"

\* TP/SL defaults of the suggestion (lines 37-42), in thousandths of a dollar
TP_BASE_SPREAD == 50
TP_STRENGTH_SCALE == 100
TP_MAX_PRICE == 950
SL_DEFAULT == 60
SL_MIN_PRICE == 30

\* suggestion = None
NoSuggestion == [present |-> FALSE, entry |-> 0, tp |-> 0, sl |-> 0]

\* (mutant) the entry is the UP price whatever the direction
Suggestion_UpEntry(direction, strength, up_buy, down_buy) ==
    IF strength >= SUGGESTION_MIN_STRENGTH
      THEN LET entry == 10 * up_buy
               spread == TP_BASE_SPREAD + (strength * TP_STRENGTH_SCALE) \div 100 IN
           [present |-> TRUE, entry |-> entry,
            tp |-> Min(entry + spread, TP_MAX_PRICE),
            sl |-> Max(entry - SL_DEFAULT, SL_MIN_PRICE)]
      ELSE NoSuggestion

\* compute_signal lines 218-227: the suggestion {'entry', 'tp', 'sl'}, in
\* thousandths of a dollar (the prices up_buy, down_buy are in cents);
\* (strength / 100) * 0.10 dollars is strength thousandths
Suggestion(direction, strength, up_buy, down_buy) ==
    IF strength >= SUGGESTION_MIN_STRENGTH
      THEN LET entry == IF direction = "UP" THEN 10 * up_buy ELSE 10 * down_buy
               spread == TP_BASE_SPREAD + (strength * TP_STRENGTH_SCALE) \div 100 IN
           [present |-> TRUE, entry |-> entry,
            tp |-> Min(entry + spread, TP_MAX_PRICE),
            sl |-> Max(entry - SL_DEFAULT, SL_MIN_PRICE)]
      ELSE NoSuggestion

NoSignal == [ok |-> FALSE, score |-> 0, strength |-> 0,
             direction |-> "NONE", suggestion |-> NoSuggestion]

\* compute_signal lines 71-239; ok = the result is not None
compute_signal(x) ==
    IF x.up_buy <= 0 \/ x.btc_price <= 0 \/ ~x.binance THEN NoSignal
    ELSE [ok |-> TRUE, score |-> FinalScore(x),
          strength |-> Strength(FinalScore(x)),
          direction |-> Direction(FinalScore(x)),
          suggestion |-> Suggestion(Direction(FinalScore(x)),
                                    Strength(FinalScore(x)),
                                    x.up_buy, x.down_buy)]

\* (mutant) the phase boundaries are inclusive
get_market_phase_Inclusive(time_remaining, window_min) ==
    IF window_min > 0 /\ time_remaining >= 66 * window_min
      THEN [phase |-> "EARLY", threshold |-> PHASE_EARLY_THRESHOLD]
    ELSE IF window_min > 0 /\ time_remaining >= 33 * window_min
      THEN [phase |-> "MID", threshold |-> PHASE_MID_THRESHOLD]
    ELSE IF window_min > 0 /\ time_remaining >= 6 * window_min
      THEN [phase |-> "LATE", threshold |-> PHASE_LATE_THRESHOLD]
    ELSE [phase |-> "CLOSING", threshold |-> PHASE_CLOSING_THRESHOLD]

\* signal_engine.get_market_phase lines 56-68: pct = time_remaining /
\* window_min (0 when the window is not positive); time_remaining in
\* hundredths of a minute, so pct > 0.66 is time_remaining > 66 * window_min
get_market_phase(time_remaining, window_min) ==
    IF window_min > 0 /\ time_remaining > 66 * window_min
      THEN [phase |-> "EARLY", threshold |-> PHASE_EARLY_THRESHOLD]
    ELSE IF window_min > 0 /\ time_remaining > 33 * window_min
      THEN [phase |-> "MID", threshold |-> PHASE_MID_THRESHOLD]
    ELSE IF window_min > 0 /\ time_remaining > 6 * window_min
      THEN [phase |-> "LATE", threshold |-> PHASE_LATE_THRESHOLD]
    ELSE [phase |-> "CLOSING", threshold |-> PHASE_CLOSING_THRESHOLD]

\* radar_poly.get_market_phase lines 172-182, the copy the main loop calls:
\* the boundaries are 10, 5 and 1 minutes of a 15-minute window
main_get_market_phase(time_remaining) ==
    IF time_remaining > 1000
      THEN [phase |-> "EARLY", threshold |-> PHASE_EARLY_THRESHOLD]
    ELSE IF time_remaining > 500
      THEN [phase |-> "MID", threshold |-> PHASE_MID_THRESHOLD]
    ELSE IF time_remaining > 100
      THEN [phase |-> "LATE", threshold |-> PHASE_LATE_THRESHOLD]
    ELSE [phase |-> "CLOSING", threshold |-> PHASE_CLOSING_THRESHOLD]

NoPhase == [phase |-> "NONE", threshold |-> 0]
NoPhaseIn == [called |-> FALSE, time_remaining |-> 0, window_min |-> 0]
NoSigIn == [called |-> FALSE]
NoMain == [called |-> FALSE, time |-> 0, phase |-> NoPhase,
           signal |-> NoSignal, opportunity |-> FALSE]

InitSignal ==
    /\ sig_in = NoSigIn
    /\ sig_ret = NoSignal
    /\ phase_in = NoPhaseIn
    /\ phase_ret = NoPhase
    /\ main = NoMain

\* the functions keep no state: a behaviour makes one call
SigIdle == ~sig_in.called /\ ~phase_in.called /\ ~main.called

\* one call of signal_engine.compute_signal
ComputeSignal(x) ==
    /\ SigIdle
    /\ sig_in' = [called |-> TRUE, x |-> x]
    /\ sig_ret' = compute_signal(x)
    /\ phase_in' = NoPhaseIn
    /\ phase_ret' = NoPhase
    /\ main' = NoMain
    /\ UNCHANGED notSig

\* one call of signal_engine.get_market_phase
GetMarketPhase(time_remaining, window_min) ==
    /\ SigIdle
    /\ phase_in' = [called |-> TRUE, time_remaining |-> time_remaining,
                    window_min |-> window_min]
    /\ phase_ret' = get_market_phase(time_remaining, window_min)
    /\ sig_in' = NoSigIn
    /\ sig_ret' = NoSignal
    /\ main' = NoMain
    /\ UNCHANGED notSig

\* radar_poly main lines 1180-1219: one cycle of the loop up to the
\* opportunity test, current_time minutes before the window closes
MainCycle(current_time, x) ==
    /\ SigIdle
    /\ LET ph == main_get_market_phase(current_time)
           sg == compute_signal(x)
           effective_threshold == Max(SIGNAL_STRENGTH_BEEP, ph.threshold) IN
        main' = [called |-> TRUE, time |-> current_time, phase |-> ph,
                 signal |-> sg,
                 opportunity |-> /\ sg.ok
                                 /\ sg.strength >= effective_threshold
                                 /\ sg.direction # "NEUTRAL"
                                 /\ sg.suggestion.present]
    /\ sig_in' = NoSigIn
    /\ sig_ret' = NoSignal
    /\ phase_in' = NoPhaseIn
    /\ phase_ret' = NoPhase
    /\ UNCHANGED notSig

\* the signals the main loop sees: strong ones in every direction
MainInputs == {x \in SigInputs : x.rsi = 20 /\ x.hist_ok /\ x.trend = 0
                                  /\ x.bb_pos = 10 /\ x.btc_price > 0
                                  /\ x.binance /\ x.vwap_pos = 5}

\* contract prices for the suggestion, in cents: the bounds 0.03 and 0.95,
\* their neighbours and the ends of [0, 1]
UpPrices == {1, 3, 9, 50, 94, 95, 100}
DownPrices == {0, 2, 3, 9, 50, 95, 96, 100}
SugInputs ==
    {[x EXCEPT !.up_buy = u, !.down_buy = d] :
        x \in MainInputs, u \in UpPrices, d \in DownPrices}

NextSignal ==
    \/ SigIdle /\ \E x \in SigInputs \cup SugInputs : ComputeSignal(x)
    \/ SigIdle /\ \E t \in PhaseTimes, w \in PhaseWindows :
                     GetMarketPhase(t, w)
    \/ SigIdle /\ \E t \in MainTimes, x \in MainInputs : MainCycle(t, x)

\* ------------------------------------------------------------------------
\* Claims: signal engine
\* ------------------------------------------------------------------------
\* C12: whenever compute_signal returns a signal, score is in [-1, 1],
\* strength is an integer in [0, 100], and strength = round(|score| x 100).
C12_StrengthIsRoundedScore ==
    sig_ret.ok =>
        /\ sig_ret.score >= -1000000
        /\ sig_ret.score <= 1000000
        /\ sig_ret.strength \in 0..100
        /\ sig_ret.strength = RoundDiv(Abs(sig_ret.score), 10000)

\* C25: in every signal returned by compute_signal, direction is UP iff
\* score > 0.10, DOWN iff score < -0.10 and NEUTRAL otherwise; a suggestion is
\* present iff strength >= 30; when present, direction is not NEUTRAL, entry is
\* the UP price for UP and the DOWN price for DOWN,
\* takeProfit = min(entry + 0.05 + 0.10 x strength/100, 0.95) and
\* stopLoss = max(entry - 0.06, 0.03).
C25_DirectionAndSuggestion ==
    sig_ret.ok =>
        LET sug == sig_ret.suggestion IN
        /\ sig_ret.direction = "UP" <=> sig_ret.score > 100000
        /\ sig_ret.direction = "DOWN" <=> sig_ret.score < -100000
        /\ sig_ret.direction = "NEUTRAL" <=>
              (sig_ret.score >= -100000 /\ sig_ret.score <= 100000)
        /\ sug.present <=> sig_ret.strength >= 30
        /\ sug.present =>
              /\ sig_ret.direction \in {"UP", "DOWN"}
              /\ sig_ret.direction = "UP" => sug.entry = 10 * sig_in.x.up_buy
              /\ sig_ret.direction = "DOWN" => sug.entry = 10 * sig_in.x.down_buy
              /\ sug.tp = Min(sug.entry + 50 + sig_ret.strength, 950)
              /\ sug.sl = Max(sug.entry - 60, 30)

\* C25 witness: a DOWN signal with a suggestion at the DOWN price, which
\* differs from the UP price, take-profit below the cap
C25_Witness ==
    /\ sig_ret.ok
    /\ sig_ret.direction = "DOWN"
    /\ sig_ret.suggestion.present
    /\ sig_in.x.up_buy = 94
    /\ sig_in.x.down_buy = 9
    /\ sig_ret.suggestion.entry = 90
    /\ sig_ret.suggestion.sl = 30
    /\ sig_ret.suggestion.tp = 140 + sig_ret.strength

\* C30: whenever compute_signal returns a suggestion,
\* stopLoss < entry < takeProfit, for every contract price of the chosen side
\* in [0, 1].
C30_StopBelowEntryBelowTake ==
    (sig_ret.ok /\ sig_ret.suggestion.present) =>
        /\ sig_ret.suggestion.sl < sig_ret.suggestion.entry
        /\ sig_ret.suggestion.entry < sig_ret.suggestion.tp

\* the mapping the claim names, for pct = remaining / window
C13_Phase(t, w) ==
    IF w > 0 /\ t > 66 * w THEN "EARLY"
    ELSE IF w > 0 /\ t > 33 * w THEN "MID"
    ELSE IF w > 0 /\ t > 6 * w THEN "LATE"
    ELSE "CLOSING"

MaxThreads == 3
Threads == 1..MaxThreads
Live(i) == threads[i] \notin {"none", "dead"}
\* the number the next thread gets, 0 when MaxThreads were made
NextThread ==
    IF \E i \in Threads : threads[i] = "none"
      THEN CHOOSE i \in Threads :
              threads[i] = "none" /\ \A j \in Threads : threads[j] = "none" => i <= j
      ELSE 0

InitThr == threads = [i \in Threads |-> "none"] /\ cur = 0

\* start(): lines 86-97 (a call while _running is set returns at line 92)
TStart ==
    /\ ~running
    /\ NextThread # 0
    /\ running' = TRUE
    /\ threads' = [threads EXCEPT ![NextThread] = "seed"]
    /\ cur' = NextThread
    /\ UNCHANGED connected
    /\ UNCHANGED notThr

\* stop(): lines 99-107; the flags are cleared and the socket closed, the
\* thread is not joined
TStop ==
    /\ running
    /\ running' = FALSE
    /\ connected' = FALSE
    /\ UNCHANGED <<threads, cur>>
    /\ UNCHANGED notThr

\* status lines 74-78: self._thread is not alive, a new one is started
TStatusRestart ==
    /\ running
    /\ ~connected
    /\ cur # 0
    /\ ~Live(cur)
    /\ NextThread # 0
    /\ threads' = [threads EXCEPT ![NextThread] = "seed"]
    /\ cur' = NextThread
    /\ UNCHANGED <<running, connected>>
    /\ UNCHANGED notThr

\* _run_loop lines 145-154: the seed is over (stored or failed)
TSeed(i) ==
    /\ threads[i] = "seed"
    /\ threads' = [threads EXCEPT ![i] = "top"]
    /\ UNCHANGED <<running, connected, cur>>
    /\ UNCHANGED notThr

\* _run_loop lines 156-158: the loop test, then _connect
TLoopTest(i) ==
    /\ threads[i] = "top"
    /\ threads' = [threads EXCEPT ![i] = IF running THEN "conn" ELSE "dead"]
    /\ UNCHANGED <<running, connected, cur>>
    /\ UNCHANGED notThr

\* _on_open lines 190-194, on the thread inside run_forever
TOpen(i) ==
    /\ threads[i] = "conn"
    /\ ~connected
    /\ connected' = TRUE
    /\ UNCHANGED <<running, threads, cur>>
    /\ UNCHANGED notThr

\* _on_close / _on_error (lines 196-203), _connect returns or raises
TConnReturn(i) ==
    /\ threads[i] = "conn"
    /\ connected' = FALSE
    /\ threads' = [threads EXCEPT ![i] = "after"]
    /\ UNCHANGED <<running, cur>>
    /\ UNCHANGED notThr

\* _run_loop lines 163-172: break when stopped, else back off
TAfter(i) ==
    /\ threads[i] = "after"
    /\ IF running
         THEN /\ threads' = [threads EXCEPT ![i] = "sleep"]
              /\ connected' = FALSE
         ELSE /\ threads' = [threads EXCEPT ![i] = "dead"]
              /\ UNCHANGED connected
    /\ UNCHANGED <<running, cur>>
    /\ UNCHANGED notThr

\* _run_loop lines 174-177: the sleep ends, or the thread sees _running
\* cleared and returns
TSleep(i) ==
    /\ threads[i] = "sleep"
    /\ threads' = [threads EXCEPT ![i] = IF running THEN "top" ELSE "dead"]
    /\ UNCHANGED <<running, connected, cur>>
    /\ UNCHANGED notThr

\* the thread ends on an error nothing catches (status line 74: "Thread died
\* unexpectedly"); no flag is reset on the way out
TDies(i) ==
    /\ Live(i)
    /\ threads' = [threads EXCEPT ![i] = "dead"]
    /\ UNCHANGED <<running, connected, cur>>
    /\ UNCHANGED notThr

NextThr ==
    \/ TStart
    \/ TStop
    \/ TStatusRestart
    \/ \E i \in Threads : TSeed(i)
    \/ \E i \in Threads : TLoopTest(i)
    \/ \E i \in Threads : TOpen(i)
    \/ \E i \in Threads : TConnReturn(i)
    \/ \E i \in Threads : TAfter(i)
    \/ \E i \in Threads : TSleep(i)
    \/ \E i \in Threads : TDies(i)

\* C29: for every interleaving of start(), stop() and status queries at most
\* one run-loop thread is live at any time, so at most one stream connection
\* feeds the buffer; a start() right after stop() does not leave the previous
\* run loop running alongside the new one.
C29_OneRunLoop ==
    /\ Cardinality({i \in Threads : Live(i)}) <= 1
    /\ Cardinality({i \in Threads : threads[i] = "conn"}) <= 1

\* ------------------------------------------------------------------------
\* detect_regime
\* ------------------------------------------------------------------------
\* A call is given n candles, of which the model keeps the last ten as
\* (open, close) pairs, oldest first; adx and bb_bw are what compute_adx and
\* compute_bollinger_bandwidth return for them (bb_bw in hundredths).
MIN_REGIME_CANDLES == 14
ADX_TREND == 25
ADX_WEAK == 18
BB_WIDE == 15
DEFAULT_ADX == 25

\* the last ten candles: closes of 100 and a last close of `last`; among the
\* last seven, the newest g close above their open, the others below it
TenCandles(last, g) ==
    [i \in 1..10 |->
        LET close == IF i = 10 THEN last ELSE 100 IN
        [open |-> IF i > 10 - g THEN close - 1 ELSE close + 1, close |-> close]]

RegimeInputs ==
    [n : {13, 14, 20}, adx : {10, 17, 18, 24, 25, 40}, bb_bw : {10, 15, 16},
     candles : {TenCandles(last, g) : last \in {99, 100, 101}, g \in 0..7}]

\* sum of the closes of a sequence of candles
RECURSIVE SumClose(_)
SumClose(cs) == IF cs = <<>> THEN 0 ELSE cs[1].close + SumClose(Tail(cs))

\* detect_regime line 400: greens among the last 7
Greens(cs) == Cardinality({i \in (Len(cs) - 6)..Len(cs) : cs[i].close > cs[i].open})

\* detect_regime lines 393-397: current > sum(closes) / len(closes)
PriceAboveSma(cs) == cs[Len(cs)].close * Len(cs) > SumClose(cs)

\* detect_regime lines 376-422
detect_regime(c) ==
    IF c.n < MIN_REGIME_CANDLES THEN [regime |-> "RANGE", adx |-> DEFAULT_ADX]
    ELSE IF c.adx >= ADX_TREND
      THEN IF PriceAboveSma(c.candles) /\ Greens(c.candles) >= 4
             THEN [regime |-> "TREND_UP", adx |-> c.adx]
           ELSE IF ~PriceAboveSma(c.candles) /\ Greens(c.candles) <= 3
             THEN [regime |-> "TREND_DOWN", adx |-> c.adx]
           ELSE [regime |-> "RANGE", adx |-> c.adx]
    ELSE IF c.adx < ADX_WEAK
      THEN IF c.bb_bw > BB_WIDE
             THEN [regime |-> "CHOP", adx |-> c.adx]
           ELSE [regime |-> "RANGE", adx |-> c.adx]
    ELSE [regime |-> "RANGE", adx |-> c.adx]

NoRegIn == [called |-> FALSE]
NoRegime == [regime |-> "NONE", adx |-> 0]

InitReg == reg_in = NoRegIn /\ reg_ret = NoRegime

\* one call of detect_regime
DetectRegime(c) ==
    /\ ~reg_in.called
    /\ reg_in' = [called |-> TRUE, c |-> c]
    /\ reg_ret' = detect_regime(c)
    /\ UNCHANGED notReg

NextReg == ~reg_in.called /\ \E c \in RegimeInputs : DetectRegime(c)

\* the regime of the decision table: price10 and sma10 are the last close and
\* the mean of the last ten closes, both times ten
C26_Table(n, adx, price10, sma10, greens, bb_bw) ==
    IF n < 14 THEN "RANGE"
    ELSE IF adx >= 25 /\ price10 > sma10 /\ greens >= 4 THEN "TREND_UP"
    ELSE IF adx >= 25 /\ price10 < sma10 /\ greens <= 3 THEN "TREND_DOWN"
    ELSE IF adx >= 25 THEN "RANGE"
    ELSE IF adx < 18 /\ bb_bw > 15 THEN "CHOP"
    ELSE "RANGE"

\* C26: detect_regime returns exactly the regime of the decision table for
\* every combination of ADX band, price against the 10-sample SMA (above,
\* equal, below), greens among the last 7 and bandwidth; with fewer than 14
\* candles it returns (RANGE, 25.0).
C26_RegimeTable ==
    reg_in.called =>
        LET c == reg_in.c
            cs == c.candles IN
        /\ reg_ret.regime =
              C26_Table(c.n, c.adx, 10 * cs[10].close, SumClose(cs),
                        Greens(cs), c.bb_bw)
        /\ c.n < 14 => reg_ret = [regime |-> "RANGE", adx |-> 25]

\* ------------------------------------------------------------------------
\* main: a signal trade (radar_poly.py lines 1234-1275)
\* ------------------------------------------------------------------------
\* Bounds of the model. The exchange of this specification reports a match
\* with its size at once (no lag).
TradeAmounts == {5000}                \* trade_amount, in 1/1000 USD
TradeQuotes == {0, 50}                \* get_price(token, "BUY") at the buy
TpDeltas == {10}                      \* sug['tp'] - sug['entry'], in cents
SlDeltas == {10}                      \* sug['entry'] - sug['sl'], in cents
TradePrices == {0, 42, 50, 62}        \* the prices monitor_tp_sl reads
TP_CAP == 95                          \* min(..., 0.95), line 1240
SL_FLOOR == 3                         \* max(..., 0.03), line 1241

\* main lines 1239-1244: the levels handed to monitor_tp_sl
TradeArgs(real_entry, tp_delta, sl_delta) ==
    LET tp == Min(real_entry + tp_delta, TP_CAP)
        sl == Max(real_entry - sl_delta, SL_FLOOR) IN
    [tp |-> tp, sl |-> sl, tp_above |-> tp > real_entry,
     sl_above |-> sl < real_entry, timeout_sec |-> 1]

\* main lines 1234-1237: the key 's' was pressed on an opportunity
TradeBuy(d, amount, base) ==
    /\ positions = <<>>
    /\ mons = 0
    /\ BuyEnter(d, amount, base)

\* main lines 1238-1248: handle_buy returned an info
TradeMonitor(tp_delta, sl_delta) ==
    /\ buy_pc = "idle"
    /\ buy_ret.ok
    /\ positions # <<>>
    /\ MonEnter(TradeArgs(buy_ret.price, tp_delta, sl_delta))

\* main line 1248: monitor_tp_sl has returned (reason, exit_price); its
\* locals are gone
TradeMonitorReturn ==
    /\ mon_pc = "done"
    /\ mon_pc' = "idle"
    /\ mon_args' = NoMonArgs
    /\ mon_price' = 0
    /\ mon_elapsed' = 0
    /\ key_i' = 0
    /\ fut' = NoFut
    /\ reads' = <<>>
    /\ fetches' = 0
    /\ UNCHANGED <<mon_ret, mons>>
    /\ UNCHANGED notMon

\* main line 1258: execute_close_market is called
TradeClose ==
    /\ mon_pc = "idle"
    /\ mon_ret.outcome # "NONE"
    /\ CloseEnter

\* main lines 1259-1271: execute_close_market returned its message, which is
\* printed; the trade is booked at exit_price and the list cleared
TradeClear ==
    /\ close_pc = "idle"
    /\ close_ret.called
    /\ positions # <<>>
    /\ positions' = <<>>
    /\ balance' = balance + mon_ret.price * buy_ret.shares
    /\ trade_log' = trade_log + 1
    /\ UNCHANGED <<buy_pc, order_req, buy_ret, buys, position_limit, posted,
                   clock, exchVars, moVars>>
    /\ UNCHANGED notBuy

NextTrade ==
    \/ \E d \in Dirs, amount \in TradeAmounts, base \in TradeQuotes :
          TradeBuy(d, amount, base)
    \/ \E quote \in TradeQuotes \ {0} : SubmitOk(quote, quote)
    \/ \E msg \in {"submit_error", "no_order_id"} : SubmitFail(msg)
    \/ ExchMatch(FALSE)
    \/ ExchCancel
    \/ \E ok \in BOOLEAN : MoTimeout(ok)
    \/ MoPollError
    \/ MoPoll
    \/ BuyReturn
    \/ \E tp_delta \in TpDeltas, sl_delta \in SlDeltas :
          TradeMonitor(tp_delta, sl_delta)
    \/ \E p \in TradePrices : MonTimeoutReturn(p)
    \/ MonSubmit
    \/ \E p \in TradePrices : FutComplete(p)
    \/ \E key \in {"", "c"} : MonKey(key)
    \/ \E p \in TradePrices : MonCancelReturn(p)
    \/ MonAwait(0)
    \/ TradeMonitorReturn
    \/ TradeClose
    \/ \E up_ok \in BOOLEAN, down_ok \in BOOLEAN : CloseRead(up_ok, down_ok)
    \/ CloseExhausted
    \/ \E submit \in {"ok", "error"} : CloseSide(50, TRUE, submit)
    \/ CloseMonitorReturn
    \/ TradeClear

\* ------------------------------------------------------------------------
\* Claims: the trade sequence
\* ------------------------------------------------------------------------
\* the position of the trade was removed from the local list
TradeCleared == positions = <<>> /\ closes > 0 /\ close_pc = "idle"

\* C19: a position is created and TP/SL monitoring starts only after the buy
\* is reported FILLED, a CANCELLED or TIMEOUT buy creates no position, and
\* every monitoring outcome (TP, SL, CANCEL, TIMEOUT) is followed by a close
\* submission before the position is removed from the local state.
C19_TradeOrder ==
    /\ positions # <<>> => buy_ret.ok
    /\ mons > 0 => buy_ret.ok
    /\ (buy_ret.called /\ ~buy_ret.ok) => positions = <<>>
    /\ closes > 0 => mon_ret.outcome \in {"TP", "SL", "CANCEL", "TIMEOUT"}
    /\ TradeCleared => sells["up"] + sells["down"] > 0

\* ------------------------------------------------------------------------
\* BinanceWS reconnection
\* ------------------------------------------------------------------------
RECONNECT_DELAY_BASE == 2
RECONNECT_DELAY_MAX == 30
N_ENDPOINTS == 2                      \* len(_build_ws_endpoints(...))

\* Bounds of the model
MaxAttempts == 7                      \* connection attempts of the run loop

\* conn: attempts = connection attempts begun; opened = the current attempt
\* reached _on_open; fails = consecutive attempts that ended without an open;
\* waits = backoff waits since the start or the last open; how = what ended
\* the current attempt
NoConn == [attempts |-> 0, opened |-> FALSE, fails |-> 0, waits |-> 0,
           how |-> "none"]

InitConn ==
    /\ loop_pc = "top"
    /\ reconnect_count = 0
    /\ endpoint_idx = 0
    /\ last_error = ""
    /\ delay = 0
    /\ url = 0
    /\ conn = NoConn

\* (mutant) the delay is not capped
Delay_NoCap(count) == RECONNECT_DELAY_BASE * (2 ^ count)

\* _run_loop lines 168-169
Delay(count) == Min(RECONNECT_DELAY_BASE * (2 ^ count), RECONNECT_DELAY_MAX)

\* _run_loop lines 156-158: the endpoint is chosen and _connect called
LoopConnect ==
    /\ loop_pc = "top"
    /\ conn.attempts < MaxAttempts
    /\ url' = endpoint_idx % N_ENDPOINTS
    /\ conn' = [conn EXCEPT !.attempts = @ + 1, !.opened = FALSE,
                            !.how = "none"]
    /\ loop_pc' = "connecting"
    /\ UNCHANGED <<reconnect_count, endpoint_idx, last_error, delay>>
    /\ UNCHANGED <<wsVars, notConn>>

\* _on_open: lines 190-194
ConnOnOpen ==
    /\ loop_pc = "connecting"
    /\ connected' = TRUE
    /\ reconnect_count' = 0
    /\ last_error' = ""
    /\ conn' = [conn EXCEPT !.opened = TRUE, !.fails = 0, !.waits = 0]
    /\ loop_pc' = "open"
    /\ UNCHANGED <<endpoint_idx, delay, url>>
    /\ UNCHANGED <<candles, current, running, last_update_age, msg_count,
                   thread_pc, minute, gc_pc, gc_call, gc_ret>>
    /\ UNCHANGED notConn

\* _on_close: lines 196-199, then run_forever returns
ConnOnClose(close_status_code) ==
    /\ loop_pc \in {"connecting", "open"}
    /\ connected' = FALSE
    /\ last_error' = IF close_status_code THEN "closed" ELSE last_error
    /\ conn' = [conn EXCEPT !.how = "close"]
    /\ loop_pc' = "returned"
    /\ UNCHANGED <<reconnect_count, endpoint_idx, delay, url>>
    /\ UNCHANGED <<candles, current, running, last_update_age, msg_count,
                   thread_pc, minute, gc_pc, gc_call, gc_ret>>
    /\ UNCHANGED notConn

\* _on_error: lines 201-203, then run_forever returns
ConnOnError ==
    /\ loop_pc \in {"connecting", "open"}
    /\ connected' = FALSE
    /\ last_error' = "error"
    /\ conn' = [conn EXCEPT !.how = "error"]
    /\ loop_pc' = "returned"
    /\ UNCHANGED <<reconnect_count, endpoint_idx, delay, url>>
    /\ UNCHANGED <<candles, current, running, last_update_age, msg_count,
                   thread_pc, minute, gc_pc, gc_call, gc_ret>>
    /\ UNCHANGED notConn

\* _run_loop lines 159-162: _connect raised
ConnectRaises ==
    /\ loop_pc = "connecting"
    /\ last_error' = "exception"
    /\ conn' = [conn EXCEPT !.how = "raise"]
    /\ loop_pc' = "returned"
    /\ UNCHANGED <<reconnect_count, endpoint_idx, delay, url>>
    /\ UNCHANGED <<wsVars, notConn>>

\* _run_loop lines 167-172: the delay is computed and the counters advanced
LoopBackoff ==
    /\ loop_pc = "returned"
    /\ delay' = Delay(reconnect_count)
    /\ reconnect_count' = reconnect_count + 1
    /\ endpoint_idx' = endpoint_idx + 1
    /\ connected' = FALSE
    /\ conn' = [conn EXCEPT !.fails = IF conn.opened THEN 0 ELSE @ + 1,
                            !.waits = @ + 1]
    /\ loop_pc' = "sleep"
    /\ UNCHANGED <<last_error, url>>
    /\ UNCHANGED <<candles, current, running, last_update_age, msg_count,
                   thread_pc, minute, gc_pc, gc_call, gc_ret>>
    /\ UNCHANGED notConn

\* _run_loop lines 174-177: the sleep is over
LoopSleepDone ==
    /\ loop_pc = "sleep"
    /\ loop_pc' = "top"
    /\ UNCHANGED <<reconnect_count, endpoint_idx, last_error, delay, url, conn>>
    /\ UNCHANGED <<wsVars, notConn>>

NextConn ==
    \/ LoopConnect
    \/ ConnOnOpen
    \/ \E close_status_code \in BOOLEAN : ConnOnClose(close_status_code)
    \/ ConnOnError
    \/ ConnectRaises
    \/ LoopBackoff
    \/ LoopSleepDone

\* ------------------------------------------------------------------------
\* Claims: reconnection
\* ------------------------------------------------------------------------
\* the waits of the claim: 2, 4, 8, 16, 30, 30, ...
DelaySeq(n) == IF n = 1 THEN 2 ELSE IF n = 2 THEN 4 ELSE IF n = 3 THEN 8
               ELSE IF n = 4 THEN 16 ELSE 30

\* C21 (as amended): the n-th wait since the start of the loop or since the
\* last successful open is 2, 4, 8, 16, 30, 30, ... seconds, that is
\* min(2 x 2^(n-1), 30); a successful open resets the counter, so the first
\* delay after a connection that had opened is 2 s, and clears the last
\* error; every close or error marks the stream disconnected; successive
\* attempts cycle round-robin through the endpoint list.
C21_Backoff ==
    /\ loop_pc = "sleep" => delay = DelaySeq(conn.waits)
    /\ (loop_pc = "sleep" /\ conn.opened) => delay = 2
    /\ loop_pc = "open" => (reconnect_count = 0 /\ last_error = "" /\ connected)
    /\ (loop_pc = "returned" /\ conn.how \in {"close", "error"}) => ~connected
    /\ loop_pc = "sleep" => ~connected
    /\ loop_pc \in {"connecting", "open", "returned"}
          => url = (conn.attempts - 1) % N_ENDPOINTS

\* C21 (as stated): after k consecutive attempts that ended without a
\* successful open the loop waits min(2 x 2^k, 30) seconds.
C21_AsStated ==
    loop_pc = "sleep" => delay = Min(2 * (2 ^ conn.fails), 30)

\* C21 witness: the sixth wait in a row, capped at 30 s, on the second
\* endpoint
C21_Witness ==
    /\ loop_pc = "sleep"
    /\ conn.waits = 6
    /\ conn.fails = 6
    /\ delay = 30
    /\ url = 1

\* ------------------------------------------------------------------------
\* Specifications
\* ------------------------------------------------------------------------
Init == InitWS /\ InitSync /\ InitExchange /\ InitBuy /\ InitMon /\ InitClose
        /\ InitSignal /\ InitLife /\ InitCache /\ InitConn /\ InitBuf
        /\ InitReg /\ InitLate /\ InitThr

SpecWS == Init /\ [][NextWS]_vars
SpecSync == Init /\ [][NextSync]_vars
SpecBuy == Init /\ [][NextBuy]_vars
SpecMon == Init /\ [][NextMon]_vars
SpecSignal == Init /\ [][NextSignal]_vars
SpecLife == Init /\ [][NextLife]_vars
SpecCache == Init /\ [][NextCache]_vars
SpecTrade == Init /\ [][NextTrade]_vars
SpecConn == Init /\ [][NextConn]_vars
SpecBuf == Init /\ [][NextBuf]_vars
SpecReg == Init /\ [][NextReg]_vars
SpecThr == Init /\ [][NextThr]_vars
SpecLate == Init /\ [][NextLate]_vars
SpecSyncFail == Init /\ [][NextSyncFail]_vars
\* the thread inside execute_close_market keeps running: its calls return or
\* time out, and its sleeps end
SpecClose == Init /\ [][NextClose]_vars /\ WF_vars(CloseThread)

\* ------------------------------------------------------------------------
\* Claims: BinanceWS
\* ------------------------------------------------------------------------
\* C1: get_candles reports source 'ws' only if, on entry, the stream was
\* connected, at least 5 candles (closed plus forming) were buffered and the
\* last update was less than 10 s old; otherwise it reports 'http', whatever
\* the outcome of the fallback fetch.
C1_SourceWsIffLive ==
    gc_ret.source # "none" =>
        LET live == gc_ret.conn /\ gc_ret.enough /\ gc_ret.fresh IN
        /\ (gc_ret.source = "ws") <=> live
        /\ (gc_ret.source = "http") <=> ~live

\* C2: a get_candles call that found the stream disconnected reports 'http'
\* and returns the candles of a fresh fetch of the last `limit` candles, never
\* buffered data (nothing when the fetch failed); a fetch reseeds the buffer:
\* all fetched candles but the newest become the closed buffer, the newest the
\* forming slot.
C2_DisconnectedReturnsFreshFetch ==
    /\ [](gc_ret.source # "none" /\ ~gc_ret.conn =>
            /\ gc_ret.source = "http"
            /\ gc_ret.candles = gc_ret.fetched
            /\ gc_ret.fetch = "ok" => Len(gc_ret.fetched) = gc_ret.limit)
    /\ [][GetCandlesFetchOk =>
            /\ candles' = ButLast(gc_ret'.fetched)
            /\ current' = <<gc_ret'.fetched[Len(gc_ret'.fetched)]>>]_vars

====
